---- MODULE Spec2Model ----
(***************************************************************************)
(* Dog Spotter backend: the dog service (create / update / delete /        *)
(* findAll), its listing route and the breed-prediction collaborator,      *)
(* modelled as request handlers that interleave at every await.            *)
(***************************************************************************)
EXTENDS Integers, Sequences, FiniteSets, TLC

\* ------------------------------------------------------------------ bounds
NumReq == 2
MaxDogs == 1
MaxUsers == 2

\* --------------------------------------------------------------- constants
Users == {"u1", "u2"}
Reqs == 1..NumReq
DogIds == 1..MaxDogs
UserIds == 1..MaxUsers

\* JavaScript's undefined and null
Absent == "undefined"
Null == "null"
\* a lookup that found no row (null), and a local not yet assigned
NoRow == [row |-> "none"]
NoPrediction == [prediction |-> "none"]

NotFoundOrForbidden == "Cachorro não encontrado ou você não tem permissão"
\* failures the collaborators raise: a storage call that fails, Prisma's
\* "record to update/delete not found", and a rejected prediction
StorageFailure == "StorageFailure"
RecordNotFound == "RecordNotFound"
MLFailure == "MLFailure"
DefaultStatus == "encontrado"

\* JavaScript truthiness of an optional string
Truthy(v) == v \notin {Absent, Null, ""}

\* Prisma writes an undefined field as NULL
Stored(v) == IF v = Absent THEN Null ELSE v

VARIABLES
    dogs,       \* the dogs table: id -> row, NoRow where no row has that id
    nextId,     \* the next id the database generates (ids are never reused)
    pc,         \* per request: the await it is suspended at
    args,       \* per request: the call's arguments (and login's local `user`)
    dog,        \* per request: create's local `dog` (existingDog is only tested)
    prediction, \* per request: the local `prediction`
    result,     \* per request: how the service call settled
    calls,      \* per request: the collaborator calls issued so far, with outcome
    listing,    \* the read request in flight (list, search, map): locals and answer
    userTable,  \* the users table: id -> row, NoRow where no row has that id
    nextUserId, \* the next user id the database generates
    auth        \* the request passing through an auth middleware

dbVars == <<dogs, nextId>>
reqVars == <<pc, args, dog, prediction, result, calls>>
listVars == <<listing>>
authVars == <<userTable, nextUserId, auth>>
vars == <<dogs, nextId, pc, args, dog, prediction, result, calls, listing,
          userTable, nextUserId, auth>>

\* ------------------------------------------------------------- data model
UserRow(u) == [id |-> u, name |-> "name-" \o u, email |-> u \o "@mail"]

NoArgs == [op |-> "none"]
NoListing == [pc |-> "idle"]
NoAuth == [pc |-> "idle"]
NoResult == [kind |-> "pending"]
Resolved(v) == [kind |-> "resolved", value |-> v]
Rejected(m) == [kind |-> "rejected", message |-> m]

\* one collaborator call as a test double records it: what was called, how it
\* settled (NoError, Pending or the failure raised), and the owner of the row
\* it addressed when it ran (Null when there was none)
NoError == "none"
Pending == "pending"
Call(name, error, owner) == [call |-> name, error |-> error, owner |-> owner]
OwnerOf(table, id) ==
    IF id \in DOMAIN table /\ table[id] # NoRow THEN table[id].userId ELSE Null

\* include: { user: { select: { id, name, email } } }
IncludeUser(row) ==
    [id |-> row.id, description |-> row.description, imageUrl |-> row.imageUrl,
     latitude |-> row.latitude, longitude |-> row.longitude, breed |-> row.breed,
     color |-> row.color, size |-> row.size, status |-> row.status,
     createdAt |-> row.createdAt, userId |-> row.userId,
     user |-> UserRow(row.userId)]

\* prisma.dog.create({ data: {...} }) of DogService.create
CreateData(input, id) ==
    [id |-> id,
     description |-> input.description,
     imageUrl |-> Stored(input.imageUrl),
     latitude |-> input.latitude,
     longitude |-> input.longitude,
     breed |-> Stored(input.breed),
     color |-> Stored(input.color),
     size |-> Stored(input.size),
     status |-> IF Truthy(input.status) THEN input.status ELSE DefaultStatus,
     createdAt |-> id,
     userId |-> input.userId]

\* variant: the guard without its breed test, if (input.imageUrl)
ShouldPredictIgnoringBreed(input) == Truthy(input.imageUrl)

\* if (input.imageUrl && !input.breed)
ShouldPredict(input) == Truthy(input.imageUrl) /\ ~Truthy(input.breed)

\* variant: the lookup by id alone, where: { id }
FindFirstById(table, id, userId) ==
    IF id \in DOMAIN table /\ table[id] # NoRow THEN table[id] ELSE NoRow

\* prisma.dog.findFirst({ where: { id, userId } })
FindFirst(table, id, userId) ==
    IF id \in DOMAIN table /\ table[id] # NoRow /\ table[id].userId = userId
    THEN table[id] ELSE NoRow

\* prisma.dog.update({ where: { id }, data }): undefined fields are left
\* alone; an undefined coordinate is a field the record does not have
Coordinates == {"latitude", "longitude"}
ApplyPatch(row, data) ==
    [f \in DOMAIN row |->
        IF f \in DOMAIN data /\ (f \in Coordinates \/ data[f] # Absent)
        THEN data[f] ELSE row[f]]

Exists(table, id) == id \in DOMAIN table /\ table[id] # NoRow

\* ------------------------------------------------------------------ inputs
CreateInputs ==
    [description : {"d"}, imageUrl : {Absent, "img"}, latitude : {0},
     longitude : {0}, breed : {Absent, "", "Lab"}, color : {Absent},
     size : {Absent}, status : {Absent}, userId : Users]

\* sightings without image or breed: the ownership specification's creates
PlainInputs == {i \in CreateInputs : i.imageUrl = Absent /\ i.breed = Absent}

\* one user's sightings, every image/breed shape: the create path's creates
OwnInputs == {i \in CreateInputs : i.userId = "u1"}

NoChange ==
    [description |-> Absent, imageUrl |-> Absent, breed |-> Absent,
     color |-> Absent, size |-> Absent, status |-> Absent]

UpdateInputs == {[NoChange EXCEPT !.status = "perdido"]}

\* what the prediction collaborator can answer
Predictions == {[breed |-> "Poodle"], [breed |-> Null]}

\* no account registered
NoUsers == [i \in UserIds |-> NoRow]

\* ---------------------------------------------------------------- accounts
\* String.prototype.toLowerCase / the database's case folding, per character
Lower(c) ==
    CASE c = "A" -> "a" [] c = "B" -> "b" [] c = "L" -> "l" [] c = "O" -> "o"
      [] c = "P" -> "p" [] OTHER -> c
toLowerCase(chars) == [i \in DOMAIN chars |-> Lower(chars[i])]

\* bcrypt.hash(password, 12) and bcrypt.compare(password, hash): the hash
\* matches the password it was made from and no other
bcryptHash(password) == [bcrypt |-> password]
bcryptCompare(password, hash) == hash = bcryptHash(password)

\* variant: the address stored as typed
CreateEmailAsTyped(email) == email

\* email: email.toLowerCase() of the create's data
CreateEmail(email) == toLowerCase(email)

\* data: { email, password: hashedPassword, name: name || null }
UserData(input, id) ==
    [id |-> id, email |-> CreateEmail(input.email),
     password |-> bcryptHash(input.password),
     name |-> IF Truthy(input.name) THEN input.name ELSE Null]

\* the accounts of the model's tables
AccountInput(i) ==
    [email |-> [k \in 1..i |-> "a"], password |-> "secret1",
     name |-> IF i % 2 = 1 THEN "Ana" ELSE Absent]
\* the accounts with ids in `kept`, the others deleted or not yet created
AccountTable(kept) ==
    [i \in UserIds |-> IF i \in kept THEN UserData(AccountInput(i), i) ELSE NoRow]

\* a sighting's userId as the model writes it, for the account with this id
OwnerName(id) == "u" \o ToString(id)
\* the account a userId refers to: dogs_userId_fkey REFERENCES users(id)
OwnerExists(table, userId) ==
    \E i \in DOMAIN table : table[i] # NoRow /\ OwnerName(table[i].id) = userId
\* the rejection of a write that breaks dogs_userId_fkey
ForeignKeyViolation == "ForeignKeyConstraintViolation"

\* ---------------------------------------------------------------- Init
Init ==
    /\ dogs = [i \in DogIds |-> NoRow]
    /\ nextId = 1
    /\ pc = [r \in Reqs |-> "idle"]
    /\ args = [r \in Reqs |-> NoArgs]
    /\ dog = [r \in Reqs |-> NoRow]
    /\ prediction = [r \in Reqs |-> NoPrediction]
    /\ result = [r \in Reqs |-> NoResult]
    /\ calls = [r \in Reqs |-> <<>>]
    /\ listing = NoListing
    /\ userTable = AccountTable(UserIds) /\ nextUserId = MaxUsers + 1 /\ auth = NoAuth

\* a handler settles: its promise resolves or rejects
Settle(r, res) ==
    /\ pc' = [pc EXCEPT ![r] = "done"]
    /\ result' = [result EXCEPT ![r] = res]

Log(r, c) == calls' = [calls EXCEPT ![r] = Append(@, c)]

\* the pending call at the end of the log settles
LogSettled(r, error) ==
    calls' = [calls EXCEPT ![r] = [@ EXCEPT ![Len(@)].error = error]]

\* ------------------------------------------------------ DogService.create
create_Start(r, input) ==
    /\ pc[r] = "idle"
    /\ pc' = [pc EXCEPT ![r] = "create:insert"]
    /\ args' = [args EXCEPT ![r] = [op |-> "create", input |-> input]]
    /\ UNCHANGED <<dbVars, dog, prediction, result, calls>>
    /\ UNCHANGED <<listVars, authVars>>

\* let dog = await prisma.dog.create(...), under the foreign key on userId;
\* then the guard of the prediction: either mlService.predictBreed is called,
\* or dog is returned
create_Insert(r) ==
    /\ pc[r] = "create:insert"
    /\ \/ /\ nextId <= MaxDogs
          /\ OwnerExists(userTable, args[r].input.userId)
          /\ LET row == CreateData(args[r].input, nextId) IN
             /\ dogs' = [dogs EXCEPT ![nextId] = row]
             /\ nextId' = nextId + 1
             /\ dog' = [dog EXCEPT ![r] = IncludeUser(row)]
             /\ IF ShouldPredict(args[r].input)
                THEN /\ pc' = [pc EXCEPT ![r] = "create:predict"]
                     /\ calls' = [calls EXCEPT ![r] =
                           @ \o <<Call("dog.create", NoError, Null),
                                  Call("ml.predictBreed", Pending, Null)>>]
                     /\ UNCHANGED result
                ELSE /\ Log(r, Call("dog.create", NoError, Null))
                     /\ Settle(r, Resolved(IncludeUser(row)))
          /\ UNCHANGED <<args, prediction>>
       \/ /\ ~OwnerExists(userTable, args[r].input.userId)
          /\ Log(r, Call("dog.create", ForeignKeyViolation, Null))
          /\ Settle(r, Rejected(ForeignKeyViolation))
          /\ UNCHANGED <<dbVars, args, dog, prediction>>
       \/ /\ Log(r, Call("dog.create", StorageFailure, Null))
          /\ Settle(r, Rejected(StorageFailure))
          /\ UNCHANGED <<dbVars, args, dog, prediction>>
    /\ UNCHANGED <<listVars, authVars>>

\* variant: no try/catch around the prediction, the failure reaches the caller
CatchBlockRethrows(d, error) == Rejected(error)

\* catch (error) { console.error('ML prediction failed:', error) }; return dog
CatchBlock(d, error) == Resolved(d)

\* const prediction = await mlService.predictBreed(...) resolves;
\* if (prediction.breed) the breed update is issued, else dog is returned
create_Predict(r, p) ==
    /\ pc[r] = "create:predict"
    /\ prediction' = [prediction EXCEPT ![r] = p]
    /\ LogSettled(r, NoError)
    /\ IF Truthy(p.breed)
       THEN /\ pc' = [pc EXCEPT ![r] = "create:update"]
            /\ UNCHANGED result
       ELSE Settle(r, Resolved(dog[r]))
    /\ UNCHANGED <<dbVars, args, dog>>
    /\ UNCHANGED <<listVars, authVars>>

\* ... or rejects, inside the try block
create_PredictThrows(r) ==
    /\ pc[r] = "create:predict"
    /\ LogSettled(r, MLFailure)
    /\ Settle(r, CatchBlock(dog[r], MLFailure))
    /\ UNCHANGED <<dbVars, args, dog, prediction>>
    /\ UNCHANGED <<listVars, authVars>>

\* data: { breed: prediction.breed }
BreedData(p) == [breed |-> p.breed]

\* variant: the update's result is dropped, await prisma.dog.update(...)
ReturnedDogStale(created, updated) == created

\* dog = await prisma.dog.update(...); ...; return dog
ReturnedDog(created, updated) == updated

\* dog = await prisma.dog.update({ where: { id: dog.id }, data: { breed } })
\* inside the try block: a rejection of the update lands in the same catch
create_Update(r) ==
    /\ pc[r] = "create:update"
    /\ LET id == dog[r].id IN
       \/ /\ Exists(dogs, id)
          /\ LET row == ApplyPatch(dogs[id], BreedData(prediction[r])) IN
             /\ dogs' = [dogs EXCEPT ![id] = row]
             /\ dog' = [dog EXCEPT ![r] = ReturnedDog(@, IncludeUser(row))]
             /\ Log(r, Call("dog.update", NoError, OwnerOf(dogs, id)))
             /\ Settle(r, Resolved(ReturnedDog(dog[r], IncludeUser(row))))
          /\ UNCHANGED <<nextId, args, prediction>>
       \/ /\ ~Exists(dogs, id)
          /\ Log(r, Call("dog.update", RecordNotFound, Null))
          /\ Settle(r, CatchBlock(dog[r], RecordNotFound))
          /\ UNCHANGED <<dbVars, args, dog, prediction>>
       \/ /\ Log(r, Call("dog.update", StorageFailure, OwnerOf(dogs, id)))
          /\ Settle(r, CatchBlock(dog[r], StorageFailure))
          /\ UNCHANGED <<dbVars, args, dog, prediction>>
    /\ UNCHANGED <<listVars, authVars>>

\* ------------------------------------------------------ DogService.update
update_Start(r, id, userId, input) ==
    /\ pc[r] = "idle"
    /\ pc' = [pc EXCEPT ![r] = "update:findFirst"]
    /\ args' = [args EXCEPT ![r] =
                  [op |-> "update", id |-> id, userId |-> userId, input |-> input]]
    /\ UNCHANGED <<dbVars, dog, prediction, result, calls>>
    /\ UNCHANGED <<listVars, authVars>>

\* variant: the message of GET /:id's 404 thrown instead
OwnershipCheckWrongMessage(existingDog) ==
    IF existingDog = NoRow THEN Rejected("Cachorro não encontrado") ELSE NoResult

\* variant: the check left out
OwnershipCheckSkipped(existingDog) == NoResult

\* if (!existingDog) throw new Error('Cachorro não encontrado ou ...')
OwnershipCheck(existingDog) ==
    IF existingDog = NoRow THEN Rejected(NotFoundOrForbidden) ELSE NoResult

\* const existingDog = await prisma.dog.findFirst({ where: { id, userId } }),
\* the ownership check, and the write it lets through
FindFirstStep(r, writePc) ==
    /\ \/ LET existingDog == FindFirst(dogs, args[r].id, args[r].userId) IN
          /\ Log(r, Call("dog.findFirst", NoError, OwnerOf(dogs, args[r].id)))
          /\ IF OwnershipCheck(existingDog) = NoResult
             THEN /\ pc' = [pc EXCEPT ![r] = writePc]
                  /\ UNCHANGED result
             ELSE Settle(r, OwnershipCheck(existingDog))
       \/ /\ Log(r, Call("dog.findFirst", StorageFailure, OwnerOf(dogs, args[r].id)))
          /\ Settle(r, Rejected(StorageFailure))
    /\ UNCHANGED <<dbVars, args, dog, prediction>>
    /\ UNCHANGED <<listVars, authVars>>

update_FindFirst(r) ==
    /\ pc[r] = "update:findFirst"
    /\ FindFirstStep(r, "update:write")

\* const dog = await prisma.dog.update({ where: { id }, data: input })
update_Write(r) ==
    /\ pc[r] = "update:write"
    /\ LET id == args[r].id IN
       \/ /\ Exists(dogs, id)
          /\ LET row == ApplyPatch(dogs[id], args[r].input) IN
             /\ dogs' = [dogs EXCEPT ![id] = row]
             /\ Log(r, Call("dog.update", NoError, OwnerOf(dogs, id)))
             /\ Settle(r, Resolved(IncludeUser(row)))
          /\ UNCHANGED nextId
       \/ /\ ~Exists(dogs, id)
          /\ Log(r, Call("dog.update", RecordNotFound, Null))
          /\ Settle(r, Rejected(RecordNotFound))
          /\ UNCHANGED dbVars
       \/ /\ Log(r, Call("dog.update", StorageFailure, OwnerOf(dogs, id)))
          /\ Settle(r, Rejected(StorageFailure))
          /\ UNCHANGED dbVars
    /\ UNCHANGED <<args, dog, prediction>>
    /\ UNCHANGED <<listVars, authVars>>

\* ------------------------------------------------------ DogService.delete
delete_Start(r, id, userId) ==
    /\ pc[r] = "idle"
    /\ pc' = [pc EXCEPT ![r] = "delete:findFirst"]
    /\ args' = [args EXCEPT ![r] = [op |-> "delete", id |-> id, userId |-> userId]]
    /\ UNCHANGED <<dbVars, dog, prediction, result, calls>>
    /\ UNCHANGED <<listVars, authVars>>

delete_FindFirst(r) ==
    /\ pc[r] = "delete:findFirst"
    /\ FindFirstStep(r, "delete:write")

\* await prisma.dog.delete({ where: { id } }); return true
delete_Write(r) ==
    /\ pc[r] = "delete:write"
    /\ LET id == args[r].id IN
       \/ /\ Exists(dogs, id)
          /\ dogs' = [dogs EXCEPT ![id] = NoRow]
          /\ Log(r, Call("dog.delete", NoError, OwnerOf(dogs, id)))
          /\ Settle(r, Resolved(TRUE))
          /\ UNCHANGED nextId
       \/ /\ ~Exists(dogs, id)
          /\ Log(r, Call("dog.delete", RecordNotFound, Null))
          /\ Settle(r, Rejected(RecordNotFound))
          /\ UNCHANGED dbVars
       \/ /\ Log(r, Call("dog.delete", StorageFailure, OwnerOf(dogs, id)))
          /\ Settle(r, Rejected(StorageFailure))
          /\ UNCHANGED dbVars
    /\ UNCHANGED <<args, dog, prediction>>
    /\ UNCHANGED <<listVars, authVars>>

\* the route has answered; the slot is free for the next request
Respond(r) ==
    /\ pc[r] = "done"
    /\ pc' = [pc EXCEPT ![r] = "idle"]
    /\ args' = [args EXCEPT ![r] = NoArgs]
    /\ dog' = [dog EXCEPT ![r] = NoRow]
    /\ prediction' = [prediction EXCEPT ![r] = NoPrediction]
    /\ result' = [result EXCEPT ![r] = NoResult]
    /\ calls' = [calls EXCEPT ![r] = <<>>]
    /\ UNCHANGED dbVars
    /\ UNCHANGED <<listVars, authVars>>

\* PUT /api/dogs/:id, DELETE /api/dogs/:id, POST /api/dogs: what the route
\* answers once the service call has settled
RouteResponse(op, res) ==
    IF res.kind = "rejected"
    THEN [status |-> 400,
          code |-> CASE op = "update" -> "UPDATE_ERROR"
                     [] op = "delete" -> "DELETE_ERROR"
                     [] OTHER -> "CREATE_ERROR",
          message |-> res.message]
    ELSE CASE op = "update" ->
                [status |-> 200, message |-> "Cachorro atualizado com sucesso",
                 dog |-> res.value]
           [] op = "delete" ->
                [status |-> 200, message |-> "Cachorro removido com sucesso"]
           [] OTHER ->
                [status |-> 201, message |-> "Cachorro registrado com sucesso",
                 dog |-> res.value]

\* ids a client can name: absent until generated, absent again once deleted
TargetIds == DogIds

\* ownership and mutation: plain creates, updates and deletes by any user
Next ==
    \/ \E r \in Reqs, input \in PlainInputs : create_Start(r, input)
    \/ \E r \in Reqs : create_Insert(r)
    \/ \E r \in Reqs, id \in TargetIds, u \in Users, input \in UpdateInputs :
          update_Start(r, id, u, input)
    \/ \E r \in Reqs : update_FindFirst(r)
    \/ \E r \in Reqs : update_Write(r)
    \/ \E r \in Reqs, id \in TargetIds, u \in Users : delete_Start(r, id, u)
    \/ \E r \in Reqs : delete_FindFirst(r)
    \/ \E r \in Reqs : delete_Write(r)
    \/ \E r \in Reqs : Respond(r)

Spec == Init /\ [][Next]_vars

\* the create path: every input shape, the prediction collaborator, and the
\* owner's deletes of the created row racing with the breed update
NextCreate ==
    \/ \E r \in Reqs, input \in OwnInputs : create_Start(r, input)
    \/ \E r \in Reqs : create_Insert(r)
    \/ \E r \in Reqs, p \in Predictions : create_Predict(r, p)
    \/ \E r \in Reqs : create_PredictThrows(r)
    \/ \E r \in Reqs : create_Update(r)
    \/ \E r \in Reqs, id \in TargetIds : delete_Start(r, id, "u1")
    \/ \E r \in Reqs : delete_FindFirst(r)
    \/ \E r \in Reqs : delete_Write(r)
    \/ \E r \in Reqs : Respond(r)

SpecCreate == Init /\ [][NextCreate]_vars

\* --------------------------------------------- GET /api/dogs and findAll
\* bounds of the listing specification
MaxLen == 2
MaxRows == 3
\* the test fixture's table size; the route's defaults
FixtureRows == 100
DefaultPage == 1
DefaultLimit == 50

\* a query-string value is a sequence of characters; an absent parameter
\* reaches parseInt as undefined, which parseInt reads as the text "undefined"
QueryChars == {"-", "0", "2", "a"}
RECURSIVE StringsUpTo(_)
StringsUpTo(n) ==
    IF n = 0 THEN {<<>>}
    ELSE LET shorter == StringsUpTo(n - 1) IN
         shorter \cup {Append(t, c) : t \in shorter, c \in QueryChars}
AbsentParam == <<"u", "n", "d", "e", "f", "i", "n", "e", "d">>
QueryValues == StringsUpTo(MaxLen) \cup {AbsentParam}

Digits == {"0", "1", "2", "3", "4", "5", "6", "7", "8", "9"}
DigitValue(c) ==
    CASE c = "0" -> 0 [] c = "1" -> 1 [] c = "2" -> 2 [] c = "3" -> 3
      [] c = "4" -> 4 [] c = "5" -> 5 [] c = "6" -> 6 [] c = "7" -> 7
      [] c = "8" -> 8 [] c = "9" -> 9

NaN == [nan |-> TRUE]
Number(n) == [nan |-> FALSE, value |-> n]

\* the value of the longest prefix of digits, acc being the digits read so far
RECURSIVE ReadDigits(_, _, _)
ReadDigits(str, acc, read) ==
    IF str # <<>> /\ Head(str) \in Digits
    THEN ReadDigits(Tail(str), 10 * acc + DigitValue(Head(str)), TRUE)
    ELSE IF read THEN Number(acc) ELSE NaN

\* parseInt(string): an optional sign, then decimal digits up to the first
\* character that is none; NaN when there is no digit
parseInt(str) ==
    LET signed == str # <<>> /\ Head(str) \in {"-", "+"}
        magnitude == ReadDigits(IF signed THEN Tail(str) ELSE str, 0, FALSE) IN
    IF magnitude.nan THEN NaN
    ELSE IF signed /\ Head(str) = "-" THEN Number(0 - magnitude.value)
    ELSE magnitude

\* parseInt(...) || default: NaN and 0 are falsy
OrDefault(parsed, default) ==
    IF parsed.nan \/ parsed.value = 0 THEN default ELSE parsed.value

\* variant: the offset of the page after the requested one, page * limit
SkipOfNextPage(page, limit) == page * limit

\* const skip = (page - 1) * limit
Skip(page, limit) == (page - 1) * limit

\* variant: the quotient truncated, Math.floor(total / limit)
CeilTruncated(total, limit) == total \div limit

\* Math.ceil(total / limit), limit # 0
Ceil(total, limit) ==
    IF limit > 0 THEN 0 - ((0 - total) \div limit)
    ELSE 0 - (total \div (0 - limit))

\* include: { user: { select: { id, name } } }
IncludeUserName(row) ==
    [id |-> row.id, description |-> row.description, imageUrl |-> row.imageUrl,
     latitude |-> row.latitude, longitude |-> row.longitude, breed |-> row.breed,
     color |-> row.color, size |-> row.size, status |-> row.status,
     createdAt |-> row.createdAt, userId |-> row.userId,
     user |-> [id |-> row.userId, name |-> UserRow(row.userId).name]]

StoredIds(table) == {i \in DOMAIN table : table[i] # NoRow}

\* prisma.dog.count()
Count(table) == Cardinality(StoredIds(table))

\* the id at each position of orderBy: { createdAt: 'desc' }
NewestFirst(table) ==
    LET ids == StoredIds(table)
        newer == [i \in ids |->
                    Cardinality({j \in ids : table[j].createdAt > table[i].createdAt})]
    IN [k \in 1..Cardinality(ids) |-> CHOOSE i \in ids : newer[i] = k - 1]

\* prisma.dog.findMany({ skip, take, orderBy, include }): a negative skip is
\* rejected; a negative take counts from the end of the ordering
findMany(table, skip, take) ==
    LET n == Count(table)
        order == NewestFirst(table)
        first == IF take >= 0 THEN skip + 1 ELSE n - skip + take + 1
        last == IF take >= 0 THEN skip + take ELSE n - skip
        from == IF first < 1 THEN 1 ELSE first
        to == IF last > n THEN n ELSE last IN
    IF skip < 0 THEN [error |-> StorageFailure]
    ELSE [error |-> NoError,
          dogs |-> [k \in 1..(IF to < from THEN 0 ELSE to - from + 1) |->
                       IncludeUserName(table[order[from + k - 1]])]]

\* a table of n sightings, created one after the other by alternating users
FixtureInput(i) ==
    [description |-> "d", imageUrl |-> Absent, latitude |-> 0, longitude |-> 0,
     breed |-> Absent, color |-> Absent, size |-> Absent, status |-> Absent,
     userId |-> IF i % 2 = 1 THEN "u1" ELSE "u2"]
TableOf(n) == [i \in 1..n |-> CreateData(FixtureInput(i), i)]
TableSizes == 0..MaxRows \cup {FixtureRows}

\* the requests the fixture table is listed with: page 2 and the defaults
FixtureQueries == {<<"2">>, AbsentParam}

InitList ==
    /\ \E n \in TableSizes : dogs = TableOf(n) /\ nextId = n + 1
    /\ pc = [r \in Reqs |-> "idle"]
    /\ args = [r \in Reqs |-> NoArgs]
    /\ dog = [r \in Reqs |-> NoRow]
    /\ prediction = [r \in Reqs |-> NoPrediction]
    /\ result = [r \in Reqs |-> NoResult]
    /\ calls = [r \in Reqs |-> <<>>]
    /\ listing = NoListing
    /\ userTable = AccountTable(UserIds) /\ nextUserId = MaxUsers + 1 /\ auth = NoAuth

Unsettled == [error |-> Pending]

\* router.get('/'): page and limit are parsed, findAll computes skip and
\* issues findMany and count together (Promise.all)
list_Start ==
    /\ listing.pc = "idle"
    /\ \E queryPage, queryLimit \in QueryValues :
        /\ Count(dogs) > MaxRows => {queryPage, queryLimit} \subseteq FixtureQueries
        /\ LET page == OrDefault(parseInt(queryPage), DefaultPage)
               limit == OrDefault(parseInt(queryLimit), DefaultLimit) IN
           listing' = [pc |-> "findAll",
                       query |-> [page |-> queryPage, limit |-> queryLimit],
                       page |-> page, limit |-> limit,
                       skip |-> Skip(page, limit), take |-> limit,
                       fetched |-> Unsettled, counted |-> Unsettled,
                       settled |-> <<>>,
                       result |-> NoResult, response |-> NoResult]
    /\ UNCHANGED <<dbVars, reqVars, authVars>>

\* the page fetch settles
list_FindMany ==
    /\ listing.pc = "findAll"
    /\ listing.fetched = Unsettled
    /\ \/ listing' = [listing EXCEPT
                        !.fetched = findMany(dogs, listing.skip, listing.take),
                        !.settled = Append(@, "dog.findMany")]
       \/ listing' = [listing EXCEPT
                        !.fetched = [error |-> StorageFailure],
                        !.settled = Append(@, "dog.findMany")]
    /\ UNCHANGED <<dbVars, reqVars, authVars>>

\* the count settles
list_Count ==
    /\ listing.pc = "findAll"
    /\ listing.counted = Unsettled
    /\ \/ listing' = [listing EXCEPT
                        !.counted = [error |-> NoError, total |-> Count(dogs)],
                        !.settled = Append(@, "dog.count")]
       \/ listing' = [listing EXCEPT
                        !.counted = [error |-> StorageFailure],
                        !.settled = Append(@, "dog.count")]
    /\ UNCHANGED <<dbVars, reqVars, authVars>>

\* variant: the settled calls are gathered whatever their outcome, a failed
\* count reported as a total of 0
findAllOutcomeSettled(fetched, counted, page, limit) ==
    IF fetched.error = Pending \/ counted.error = Pending THEN NoResult
    ELSE IF fetched.error # NoError THEN Rejected(StorageFailure)
    ELSE LET total == IF counted.error = NoError THEN counted.total ELSE 0 IN
         Resolved([dogs |-> fetched.dogs,
                   pagination |-> [page |-> page, limit |-> limit, total |-> total,
                                   totalPages |-> Ceil(total, limit)]])

\* const [dogs, total] = await Promise.all([...]); return { dogs, pagination }:
\* Promise.all rejects with the first rejection and resolves once both calls
\* have resolved
findAllOutcome(fetched, counted, page, limit) ==
    IF \E c \in {fetched, counted} : c.error \notin {NoError, Pending}
    THEN Rejected(StorageFailure)
    ELSE IF fetched.error = NoError /\ counted.error = NoError
    THEN Resolved([dogs |-> fetched.dogs,
                   pagination |-> [page |-> page, limit |-> limit,
                                   total |-> counted.total,
                                   totalPages |-> Ceil(counted.total, limit)]])
    ELSE NoResult

\* findAll returns or throws; the route answers 200 with the result or 500
list_Return ==
    /\ listing.pc = "findAll"
    /\ LET outcome == findAllOutcome(listing.fetched, listing.counted,
                                     listing.page, listing.limit) IN
       /\ outcome # NoResult
       /\ listing' = [listing EXCEPT
             !.pc = "done",
             !.result = outcome,
             !.response = IF outcome.kind = "resolved"
                          THEN [status |-> 200, body |-> outcome.value]
                          ELSE [status |-> 500, code |-> "LIST_ERROR",
                                message |-> "Erro ao listar cachorros"]]
    /\ UNCHANGED <<dbVars, reqVars, authVars>>

list_Respond ==
    /\ listing.pc = "done"
    /\ listing' = NoListing
    /\ UNCHANGED <<dbVars, reqVars, authVars>>

NextList ==
    \/ list_Start
    \/ list_FindMany
    \/ list_Count
    \/ list_Return
    \/ list_Respond

SpecList == InitList /\ [][NextList]_vars

\* the code's own steps run once enabled (the event loop resumes every settled
\* await); the prediction collaborator's answer is the environment's and has
\* no fairness
FairCreate ==
    \A r \in Reqs :
        /\ WF_vars(create_Insert(r))
        /\ WF_vars(create_Update(r))
        /\ WF_vars(delete_FindFirst(r))
        /\ WF_vars(delete_Write(r))
        /\ WF_vars(Respond(r))

SpecCreateFair == Init /\ [][NextCreate]_vars /\ FairCreate

\* ------------------------------------- DogService.search and getForMap
\* the characters of each text the search model stores or searches for
Spelling(text) ==
    CASE text = "" -> <<>>
      [] text = "d" -> <<"d">>
      [] text = "b" -> <<"b">>
      [] text = "lab" -> <<"l", "a", "b">>
      [] text = "Lab" -> <<"L", "a", "b">>
      [] text = "Poo" -> <<"P", "o", "o">>
      [] text = "LA" -> <<"L", "A">>
      [] text = "oo" -> <<"o", "o">>

\* needle occurs in hay
Contains(hay, needle) ==
    \E i \in 0..(Len(hay) - Len(needle)) :
        SubSeq(hay, i + 1, i + Len(needle)) = needle

\* variant: the match without mode: 'insensitive'
ContainsSensitive(column, text) ==
    column # Null /\ Contains(Spelling(column), Spelling(text))

\* { contains: text, mode: 'insensitive' }; a NULL column matches nothing
ContainsInsensitive(column, text) ==
    column # Null /\ Contains(toLowerCase(Spelling(column)), toLowerCase(Spelling(text)))

\* an optional number: undefined, or the Number / NaN of the listing section
NoNumber == [undefined |-> TRUE]
\* JavaScript truthiness of an optional number: undefined, NaN and 0 are falsy
TruthyNumber(v) == v # NoNumber /\ ~v.nan /\ v.value # 0

\* variant: the breed filter dropped when a query is given
WhereBreedUnlessQuery(query, breed) ==
    IF Truthy(breed) /\ ~Truthy(query) THEN breed ELSE Absent

\* if (breed) where.breed = { contains: breed, mode: 'insensitive' }
WhereBreed(query, breed) == IF Truthy(breed) THEN breed ELSE Absent

\* the where object search builds: a key is Absent when its if is not taken
SearchWhere(filters) ==
    [OR |-> IF Truthy(filters.query) THEN filters.query ELSE Absent,
     status |-> IF Truthy(filters.status) THEN filters.status ELSE Absent,
     size |-> IF Truthy(filters.size) THEN filters.size ELSE Absent,
     breed |-> WhereBreed(filters.query, filters.breed)]

\* the storage layer's reading of that where object: its keys are ANDed
MatchesWhere(row, where) ==
    /\ where.OR # Absent =>
          \/ ContainsInsensitive(row.description, where.OR)
          \/ ContainsInsensitive(row.breed, where.OR)
          \/ ContainsInsensitive(row.color, where.OR)
    /\ where.status # Absent => row.status = where.status
    /\ where.size # Absent => row.size = where.size
    /\ where.breed # Absent => ContainsInsensitive(row.breed, where.breed)

\* the ids of `ids` by orderBy: { createdAt: 'desc' }
NewestOf(table, ids) ==
    LET newer == [i \in ids |->
                    Cardinality({j \in ids : table[j].createdAt > table[i].createdAt})]
    IN [k \in 1..Cardinality(ids) |-> CHOOSE i \in ids : newer[i] = k - 1]

\* prisma.dog.findMany({ where, orderBy, include }) of search
findManyWhere(table, where) ==
    LET order == NewestOf(table, {i \in StoredIds(table) : MatchesWhere(table[i], where)})
    IN [k \in DOMAIN order |-> IncludeUserName(table[order[k]])]

\* metres of one degree of arc on a sphere of R = 6371 km: R * PI / 180
MetresPerDegree == 111195
Abs(n) == IF n < 0 THEN 0 - n ELSE n

\* variant: the latitudes added where they are subtracted
calculateDistanceOfSum(lat1, lon1, lat2, lon2) ==
    MetresPerDegree * (Abs(lat2 + lat1) + Abs(lon2 + lon1))

\* the Haversine distance, in metres, for two points on one meridian (the
\* model's points all have longitude 0): c = |dLat| in radians, R * c
calculateDistance(lat1, lon1, lat2, lon2) ==
    IF lon1 = lon2 THEN MetresPerDegree * Abs(lat2 - lat1)
    ELSE MetresPerDegree * Abs(lon2 - lon1)

\* if (latitude !== undefined && longitude !== undefined && radiusKm)
RadiusGiven(filters) ==
    /\ filters.latitude # NoNumber /\ filters.longitude # NoNumber
    /\ TruthyNumber(filters.radiusKm)

\* distance <= radiusKm, the distance being in metres; false for a NaN operand
WithinRadius(row, filters) ==
    /\ ~filters.latitude.nan /\ ~filters.longitude.nan /\ ~filters.radiusKm.nan
    /\ calculateDistance(filters.latitude.value, filters.longitude.value,
                         row.latitude, row.longitude)
          <= 1000 * filters.radiusKm.value

\* Array.prototype.filter
RECURSIVE SelectRows(_, _)
SelectRows(rows, filters) ==
    IF rows = <<>> THEN <<>>
    ELSE IF WithinRadius(Head(rows), filters)
         THEN <<Head(rows)>> \o SelectRows(Tail(rows), filters)
         ELSE SelectRows(Tail(rows), filters)

\* dogs = dogs.filter(...) when the radius is given; return dogs
RadiusFilter(rows, filters) ==
    IF RadiusGiven(filters) THEN SelectRows(rows, filters) ELSE rows

\* parseFloat(string), for the texts the model sends: a sign and decimal
\* digits, without fraction or exponent, which parseFloat reads as parseInt does
parseFloat(str) == parseInt(str)

\* lat ? parseFloat(lat as string) : undefined -- an absent or empty
\* parameter is falsy
OptionalFloat(param) ==
    IF param \in {AbsentParam, <<>>} THEN NoNumber ELSE parseFloat(param)

\* what a client sends to GET /api/dogs/search
SearchQueries ==
    [q : {Absent, "", "LA", "oo"}, status : {Absent, "perdido"},
     size : {Absent, "grande"}, breed : {Absent, "LA", "oo"},
     lat : {AbsentParam, <<"0">>, <<"1">>}, lng : {AbsentParam, <<"0">>},
     radius : {AbsentParam, <<"0">>, <<"a">>, <<"2">>, <<"1", "1", "2">>}]

\* const filters = { query, status, size, breed, latitude, longitude, radiusKm }
SearchFilters(query) ==
    [query |-> query.q, status |-> query.status, size |-> query.size,
     breed |-> query.breed,
     latitude |-> OptionalFloat(query.lat),
     longitude |-> OptionalFloat(query.lng),
     radiusKm |-> OptionalFloat(query.radius)]

\* the sightings of the search tables, one meridian degree apart
SightingCatalog ==
    <<[description |-> "lab", imageUrl |-> "img", latitude |-> 0, longitude |-> 0,
       breed |-> Absent, color |-> Absent, size |-> "grande", status |-> Absent,
       userId |-> "u1"],
      [description |-> "d", imageUrl |-> Absent, latitude |-> 1, longitude |-> 0,
       breed |-> "Lab", color |-> "b", size |-> Absent, status |-> "perdido",
       userId |-> "u2"],
      [description |-> "d", imageUrl |-> Absent, latitude |-> 2, longitude |-> 0,
       breed |-> "Poo", color |-> Absent, size |-> "grande", status |-> "perdido",
       userId |-> "u1"],
      [description |-> "d", imageUrl |-> Absent, latitude |-> 1, longitude |-> 0,
       breed |-> Absent, color |-> "Lab", size |-> "grande", status |-> "perdido",
       userId |-> "u2"]>>
Sighting(i) == SightingCatalog[((i - 1) % Len(SightingCatalog)) + 1]
SightingTable(n) == [i \in 1..n |-> CreateData(Sighting(i), i)]

\* take: 100 of getForMap, and a table with more rows than that
MapTake == 100
ManyRows == MapTake + 1
SearchTableSizes == 0..MaxRows \cup {ManyRows}

InitSearch ==
    /\ \E n \in SearchTableSizes : dogs = SightingTable(n) /\ nextId = n + 1
    /\ pc = [r \in Reqs |-> "idle"]
    /\ args = [r \in Reqs |-> NoArgs]
    /\ dog = [r \in Reqs |-> NoRow]
    /\ prediction = [r \in Reqs |-> NoPrediction]
    /\ result = [r \in Reqs |-> NoResult]
    /\ calls = [r \in Reqs |-> <<>>]
    /\ listing = NoListing
    /\ userTable = AccountTable(UserIds) /\ nextUserId = MaxUsers + 1 /\ auth = NoAuth

\* router.get('/search'): the filters are read from the query string and
\* search builds its where object (the large table is the map's)
search_Start ==
    /\ listing.pc = "idle"
    /\ Count(dogs) <= MaxRows
    /\ \E query \in SearchQueries :
          listing' = [pc |-> "search", op |-> "search",
                      filters |-> SearchFilters(query),
                      where |-> SearchWhere(SearchFilters(query)),
                      result |-> NoResult, response |-> NoResult]
    /\ UNCHANGED <<dbVars, reqVars, authVars>>

\* let dogs = await prisma.dog.findMany(...); the radius filter; return dogs;
\* the route answers { dogs }, or 500 when the fetch rejects
search_FindMany ==
    /\ listing.pc = "search"
    /\ \/ LET found == RadiusFilter(findManyWhere(dogs, listing.where), listing.filters)
          IN listing' = [listing EXCEPT
                !.pc = "done",
                !.result = Resolved(found),
                !.response = [status |-> 200, body |-> [dogs |-> found]]]
       \/ listing' = [listing EXCEPT
                !.pc = "done",
                !.result = Rejected(StorageFailure),
                !.response = [status |-> 500, code |-> "SEARCH_ERROR",
                              message |-> "Erro ao buscar cachorros"]]
    /\ UNCHANGED <<dbVars, reqVars, authVars>>

search_Respond ==
    /\ listing.pc = "done" /\ listing.op = "search"
    /\ listing' = NoListing
    /\ UNCHANGED <<dbVars, reqVars, authVars>>

\* getForMap's optional argument when the route passes none
NoBounds == [bounds |-> "undefined"]

\* what a client sends to GET /api/dogs/map
MapQueries ==
    [north : {AbsentParam, <<"0">>, <<"1">>, <<"2">>},
     south : {AbsentParam, <<"0">>, <<"1">>, <<"2">>},
     east : {AbsentParam, <<"0">>, <<"1">>},
     west : {AbsentParam, <<"0">>, <<"1">>}]

\* if (north && south && east && west) bounds = { north: parseFloat(...), ... }
MapBounds(query) ==
    IF \A side \in {query.north, query.south, query.east, query.west} :
          side \notin {AbsentParam, <<>>}
    THEN [north |-> parseFloat(query.north).value,
          south |-> parseFloat(query.south).value,
          east |-> parseFloat(query.east).value,
          west |-> parseFloat(query.west).value]
    ELSE NoBounds

\* where.latitude = { gte: south, lte: north }, where.longitude = { gte: west,
\* lte: east } if (bounds); the empty where matches every row
MatchesBounds(row, bounds) ==
    bounds # NoBounds =>
        /\ bounds.south <= row.latitude /\ row.latitude <= bounds.north
        /\ bounds.west <= row.longitude /\ row.longitude <= bounds.east

\* variant: a select that also takes the owner's id
MapSelectWithOwner ==
    {"id", "latitude", "longitude", "imageUrl", "description", "status", "breed",
     "createdAt", "userId"}

\* select: { id, latitude, longitude, imageUrl, description, status, breed,
\* createdAt }
MapSelect ==
    {"id", "latitude", "longitude", "imageUrl", "description", "status", "breed",
     "createdAt"}

Select(row, fields) == [f \in fields |-> row[f]]

\* variant: a fetch without take
TakeAll(rows, n) == rows

\* take: n
Take(rows, n) == SubSeq(rows, 1, IF Len(rows) < n THEN Len(rows) ELSE n)

\* prisma.dog.findMany({ where, select, orderBy, take: 100 }) of getForMap
findManyMap(table, bounds) ==
    LET order == NewestOf(table, {i \in StoredIds(table) : MatchesBounds(table[i], bounds)})
    IN Take([k \in DOMAIN order |-> Select(table[order[k]], MapSelect)], MapTake)

\* dogs.map(dog => ({ id, latitude, longitude, imageUrl, description, status,
\* breed })) of the route
Marker(d) ==
    [id |-> d.id, latitude |-> d.latitude, longitude |-> d.longitude,
     imageUrl |-> d.imageUrl, description |-> d.description, status |-> d.status,
     breed |-> d.breed]

\* router.get('/map'): the bounds are read when all four sides are given
map_Start ==
    /\ listing.pc = "idle"
    /\ \E query \in MapQueries :
          listing' = [pc |-> "map", op |-> "map", bounds |-> MapBounds(query),
                      result |-> NoResult, response |-> NoResult]
    /\ UNCHANGED <<dbVars, reqVars, authVars>>

\* const dogs = await prisma.dog.findMany(...); return dogs; the route
\* answers { markers }, or 500 when the fetch rejects
map_FindMany ==
    /\ listing.pc = "map"
    /\ \/ LET found == findManyMap(dogs, listing.bounds)
          IN listing' = [listing EXCEPT
                !.pc = "done",
                !.result = Resolved(found),
                !.response = [status |-> 200,
                              body |-> [markers |->
                                 [k \in DOMAIN found |-> Marker(found[k])]]]]
       \/ listing' = [listing EXCEPT
                !.pc = "done",
                !.result = Rejected(StorageFailure),
                !.response = [status |-> 500, code |-> "MAP_ERROR",
                              message |-> "Erro ao buscar marcadores do mapa"]]
    /\ UNCHANGED <<dbVars, reqVars, authVars>>

map_Respond ==
    /\ listing.pc = "done" /\ listing.op = "map"
    /\ listing' = NoListing
    /\ UNCHANGED <<dbVars, reqVars, authVars>>

NextSearch ==
    \/ search_Start
    \/ search_FindMany
    \/ search_Respond
    \/ map_Start
    \/ map_FindMany
    \/ map_Respond

SpecSearch == InitSearch /\ [][NextSearch]_vars

\* ------------------------------------------ AuthService.register / login
EmailTaken == "Email já cadastrado"
InvalidCredentials == "Credenciais inválidas"
\* the rejection of a create that breaks the unique index users_email_key
UniqueViolation == "UniqueConstraintViolation"

\* email addresses as their characters; passwords as the route lets them in
Emails == {<<"a">>, <<"A">>, <<"b">>}
RegisterInputs == [email : Emails, password : {"secret1"}, name : {Absent, "Ana"}]
LoginInputs == [email : Emails, password : {"secret1", "secret2"}]

\* jwt.sign({ userId }, this.jwtSecret, { expiresIn: '7d' })
generateToken(userId) == "jwt." \o ToString(userId)

\* prisma.user.findUnique({ where: { email } })
FindByEmail(table, email) ==
    IF \E i \in DOMAIN table : table[i] # NoRow /\ table[i].email = email
    THEN table[CHOOSE i \in DOMAIN table : table[i] # NoRow /\ table[i].email = email]
    ELSE NoRow

\* select: { id: true, email: true, name: true }
PublicUser(row) == [id |-> row.id, email |-> row.email, name |-> row.name]

register_Start(r, input) ==
    /\ pc[r] = "idle"
    /\ pc' = [pc EXCEPT ![r] = "register:findUnique"]
    /\ args' = [args EXCEPT ![r] = [op |-> "register", input |-> input]]
    /\ UNCHANGED <<dbVars, dog, prediction, result, calls>>
    /\ UNCHANGED <<listVars, authVars>>

\* variant: the check left out
DuplicateCheckSkipped(existingUser) == NoResult

\* if (existingUser) throw new Error('Email já cadastrado')
DuplicateCheck(existingUser) ==
    IF existingUser # NoRow THEN Rejected(EmailTaken) ELSE NoResult

\* const existingUser = await prisma.user.findUnique({ where: { email:
\* email.toLowerCase() } }), and the duplicate check; the call is logged with
\* the id of the account found
register_FindUnique(r) ==
    /\ pc[r] = "register:findUnique"
    /\ \/ LET existingUser == FindByEmail(userTable, toLowerCase(args[r].input.email)) IN
          /\ Log(r, Call("user.findUnique", NoError,
                         IF existingUser = NoRow THEN Null ELSE "found"))
          /\ IF DuplicateCheck(existingUser) = NoResult
             THEN /\ pc' = [pc EXCEPT ![r] = "register:hash"]
                  /\ UNCHANGED result
             ELSE Settle(r, DuplicateCheck(existingUser))
       \/ /\ Log(r, Call("user.findUnique", StorageFailure, Null))
          /\ Settle(r, Rejected(StorageFailure))
    /\ UNCHANGED <<dbVars, args, dog, prediction>>
    /\ UNCHANGED <<listVars, authVars>>

\* const hashedPassword = await bcrypt.hash(password, 12)
register_Hash(r) ==
    /\ pc[r] = "register:hash"
    /\ Log(r, Call("bcrypt.hash", NoError, Null))
    /\ pc' = [pc EXCEPT ![r] = "register:create"]
    /\ UNCHANGED <<dbVars, args, dog, prediction, result>>
    /\ UNCHANGED <<listVars, authVars>>

\* const user = await prisma.user.create(...), under the unique index on
\* email; const token = this.generateToken(user.id); return { user, token }
register_Create(r) ==
    /\ pc[r] = "register:create"
    /\ LET row == UserData(args[r].input, nextUserId) IN
       \/ /\ nextUserId <= MaxUsers
          /\ FindByEmail(userTable, row.email) = NoRow
          /\ userTable' = [userTable EXCEPT ![nextUserId] = row]
          /\ nextUserId' = nextUserId + 1
          /\ calls' = [calls EXCEPT ![r] =
                @ \o <<Call("user.create", NoError, Null),
                       Call("jwt.sign", NoError, Null)>>]
          /\ Settle(r, Resolved([user |-> PublicUser(row),
                                 token |-> generateToken(row.id)]))
       \/ /\ FindByEmail(userTable, row.email) # NoRow
          /\ Log(r, Call("user.create", UniqueViolation, Null))
          /\ Settle(r, Rejected(UniqueViolation))
          /\ UNCHANGED <<userTable, nextUserId>>
       \/ /\ Log(r, Call("user.create", StorageFailure, Null))
          /\ Settle(r, Rejected(StorageFailure))
          /\ UNCHANGED <<userTable, nextUserId>>
    /\ UNCHANGED <<dbVars, args, dog, prediction>>
    /\ UNCHANGED <<listVars, auth>>

login_Start(r, input) ==
    /\ pc[r] = "idle"
    /\ pc' = [pc EXCEPT ![r] = "login:findUnique"]
    /\ args' = [args EXCEPT ![r] = [op |-> "login", input |-> input, user |-> NoRow]]
    /\ UNCHANGED <<dbVars, dog, prediction, result, calls>>
    /\ UNCHANGED <<listVars, authVars>>

\* variant: an unknown address told apart from a wrong password
UnknownEmailTold == "Usuário não encontrado"

\* if (!user) throw new Error('Credenciais inválidas')
UnknownEmailError == InvalidCredentials

\* const user = await prisma.user.findUnique({ where: { email:
\* email.toLowerCase() } }); if (!user) throw
login_FindUnique(r) ==
    /\ pc[r] = "login:findUnique"
    /\ \/ LET user == FindByEmail(userTable, toLowerCase(args[r].input.email)) IN
          /\ Log(r, Call("user.findUnique", NoError,
                         IF user = NoRow THEN Null ELSE "found"))
          /\ args' = [args EXCEPT ![r].user = user]
          /\ IF user = NoRow
             THEN Settle(r, Rejected(UnknownEmailError))
             ELSE /\ pc' = [pc EXCEPT ![r] = "login:compare"]
                  /\ UNCHANGED result
       \/ /\ Log(r, Call("user.findUnique", StorageFailure, Null))
          /\ Settle(r, Rejected(StorageFailure))
          /\ UNCHANGED args
    /\ UNCHANGED <<dbVars, dog, prediction>>
    /\ UNCHANGED <<listVars, authVars>>

\* const isPasswordValid = await bcrypt.compare(password, user.password);
\* if (!isPasswordValid) throw; the token is signed and { user, token } returned
login_Compare(r) ==
    /\ pc[r] = "login:compare"
    /\ LET user == args[r].user IN
       IF bcryptCompare(args[r].input.password, user.password)
       THEN /\ calls' = [calls EXCEPT ![r] =
                  @ \o <<Call("bcrypt.compare", NoError, Null),
                         Call("jwt.sign", NoError, Null)>>]
            /\ Settle(r, Resolved([user |-> PublicUser(user),
                                   token |-> generateToken(user.id)]))
       ELSE /\ Log(r, Call("bcrypt.compare", NoError, Null))
            /\ Settle(r, Rejected(InvalidCredentials))
    /\ UNCHANGED <<dbVars, args, dog, prediction>>
    /\ UNCHANGED <<listVars, authVars>>

\* no account registered yet
InitAuth ==
    /\ dogs = [i \in DogIds |-> NoRow]
    /\ nextId = 1
    /\ pc = [r \in Reqs |-> "idle"]
    /\ args = [r \in Reqs |-> NoArgs]
    /\ dog = [r \in Reqs |-> NoRow]
    /\ prediction = [r \in Reqs |-> NoPrediction]
    /\ result = [r \in Reqs |-> NoResult]
    /\ calls = [r \in Reqs |-> <<>>]
    /\ listing = NoListing
    /\ userTable = NoUsers /\ nextUserId = 1 /\ auth = NoAuth

\* registrations and logins in any interleaving
NextAuth ==
    \/ \E r \in Reqs, input \in RegisterInputs : register_Start(r, input)
    \/ \E r \in Reqs : register_FindUnique(r)
    \/ \E r \in Reqs : register_Hash(r)
    \/ \E r \in Reqs : register_Create(r)
    \/ \E r \in Reqs, input \in LoginInputs : login_Start(r, input)
    \/ \E r \in Reqs : login_FindUnique(r)
    \/ \E r \in Reqs : login_Compare(r)
    \/ \E r \in Reqs : Respond(r)

SpecAuth == InitAuth /\ [][NextAuth]_vars

\* ------------------------------- authMiddleware / optionalAuthMiddleware
\* tokens a client can present: the service's own for each account id (and
\* for one id that has no account), an expired one, a forged one, none at
\* all, and one signed with the secret whose payload has no userId
TokenIds == 1..(MaxUsers + 1)
ExpiredToken == "jwt.expired"
ForgedToken == "jwt.forged"
OtherPayloadToken == "jwt.other"
Tokens ==
    {generateToken(id) : id \in TokenIds}
       \cup {ExpiredToken, ForgedToken, OtherPayloadToken, ""}

\* jwt.verify(token, jwtSecret): the payload, or the error it throws
jwtVerify(token) ==
    IF \E id \in TokenIds : token = generateToken(id)
    THEN [error |-> NoError,
          payload |-> [userId |-> CHOOSE id \in TokenIds : token = generateToken(id)]]
    ELSE IF token = OtherPayloadToken
    THEN [error |-> NoError, payload |-> [sub |-> "other"]]
    ELSE IF token = ExpiredToken
    THEN [error |-> "TokenExpiredError"]
    ELSE [error |-> "JsonWebTokenError"]

\* variant: only the base class recognised
IsJsonWebTokenErrorExact(error) == error = "JsonWebTokenError"

\* error instanceof jwt.JsonWebTokenError: TokenExpiredError and
\* NotBeforeError extend it
IsJsonWebTokenError(error) ==
    error \in {"JsonWebTokenError", "TokenExpiredError", "NotBeforeError"}

\* the Authorization header as its words, the text being the words joined by
\* single spaces; <<>> is no header at all
Headers ==
    {<<>>, <<"">>, <<"Bearer">>, <<"Basic", generateToken(1)>>,
     <<"bearer", generateToken(1)>>, <<"Bearer", generateToken(1), "x">>}
       \cup {<<"Bearer", t>> : t \in Tokens}

\* !authHeader || !authHeader.startsWith('Bearer ')
StartsWithBearer(header) ==
    header \notin {<<>>, <<"">>} /\ Len(header) >= 2 /\ header[1] = "Bearer"

\* authHeader.split(' ')[1]
TokenOf(header) == header[2]

\* prisma.user.findUnique({ where: { id }, select: { id, email, name } })
FindById(table, id) ==
    IF id \in DOMAIN table /\ table[id] # NoRow THEN PublicUser(table[id]) ELSE NoRow

\* res.status(status).json({ error: { code, message } })
ErrorResponse(status, code, message) ==
    [status |-> status, code |-> code, message |-> message]

InitMiddleware ==
    /\ dogs = [i \in DogIds |-> NoRow]
    /\ nextId = 1
    /\ pc = [r \in Reqs |-> "idle"]
    /\ args = [r \in Reqs |-> NoArgs]
    /\ dog = [r \in Reqs |-> NoRow]
    /\ prediction = [r \in Reqs |-> NoPrediction]
    /\ result = [r \in Reqs |-> NoResult]
    /\ calls = [r \in Reqs |-> <<>>]
    /\ listing = NoListing
    /\ \E kept \in SUBSET UserIds : userTable = AccountTable(kept)
    /\ nextUserId = MaxUsers + 1
    /\ auth = NoAuth

\* a request enters a middleware: req with its header, nothing sent on res,
\* next not called
Entering(mw, header) ==
    [pc |-> "entered", mw |-> mw, req |-> [authorization |-> header],
     decoded |-> NoRow, lookup |-> Pending, sent |-> <<>>, nextCalls |-> 0]

Send(a, response) == [a EXCEPT !.pc = "done", !.sent = Append(@, response)]
CallNext(a) == [a EXCEPT !.pc = "done", !.nextCalls = @ + 1]

\* catch (error) of authMiddleware
AuthCatch(a, error) ==
    IF IsJsonWebTokenError(error)
    THEN Send(a, ErrorResponse(401, "INVALID_TOKEN", "Token inválido"))
    ELSE Send(a, ErrorResponse(500, "AUTH_ERROR", "Erro na autenticação"))

\* authMiddleware up to its await: the header test, the token, jwt.verify
authMiddleware_Start ==
    /\ auth.pc = "idle"
    /\ \E header \in Headers :
          LET a == Entering("authMiddleware", header) IN
          IF ~StartsWithBearer(header)
          THEN auth' = Send(a, ErrorResponse(401, "UNAUTHORIZED", "Token não fornecido"))
          ELSE LET verified == jwtVerify(TokenOf(header)) IN
               IF verified.error # NoError
               THEN auth' = AuthCatch(a, verified.error)
               ELSE auth' = [a EXCEPT !.pc = "findUnique",
                                      !.decoded = verified.payload]
    /\ UNCHANGED <<dbVars, reqVars, listVars, userTable, nextUserId>>

\* req.userId = user.id; req.user = user
SetUser(a, user) ==
    [a EXCEPT !.req = [authorization |-> a.req.authorization,
                       userId |-> user.id, user |-> user]]

\* variant: the token's userId trusted without the lookup's answer
UserCheckTrustingToken(a, user) ==
    CallNext([a EXCEPT !.req = [authorization |-> a.req.authorization,
                                userId |-> a.decoded.userId, user |-> user]])

\* if (!user) { res.status(401)...; return }; req.userId = user.id; next()
UserCheck(a, user) ==
    IF user = NoRow
    THEN Send(a, ErrorResponse(401, "UNAUTHORIZED", "Usuário não encontrado"))
    ELSE CallNext(SetUser(a, user))

\* const user = await prisma.user.findUnique(...) settles: the call is
\* rejected for a payload without userId or by a storage failure; a missing
\* user is answered 401; otherwise req is filled and next called
authMiddleware_FindUnique ==
    /\ auth.pc = "findUnique" /\ auth.mw = "authMiddleware"
    /\ \/ /\ "userId" \in DOMAIN auth.decoded
          /\ LET user == FindById(userTable, auth.decoded.userId)
                 a == [auth EXCEPT !.lookup = NoError] IN
             auth' = UserCheck(a, user)
       \/ /\ "userId" \notin DOMAIN auth.decoded
          /\ auth' = AuthCatch([auth EXCEPT !.lookup = StorageFailure], StorageFailure)
       \/ auth' = AuthCatch([auth EXCEPT !.lookup = StorageFailure], StorageFailure)
    /\ UNCHANGED <<dbVars, reqVars, listVars, userTable, nextUserId>>

\* variant: the catch answering 401 as authMiddleware does
OptionalCatchRejects(a) ==
    Send(a, ErrorResponse(401, "INVALID_TOKEN", "Token inválido"))

\* catch { next() } of optionalAuthMiddleware
OptionalCatch(a) == CallNext(a)

\* optionalAuthMiddleware up to its await, or through next() without one
optionalAuthMiddleware_Start ==
    /\ auth.pc = "idle"
    /\ \E header \in Headers :
          LET a == Entering("optionalAuthMiddleware", header) IN
          IF ~StartsWithBearer(header)
          THEN auth' = CallNext(a)
          ELSE LET verified == jwtVerify(TokenOf(header)) IN
               IF verified.error # NoError
               THEN auth' = OptionalCatch(a)
               ELSE auth' = [a EXCEPT !.pc = "findUnique",
                                      !.decoded = verified.payload]
    /\ UNCHANGED <<dbVars, reqVars, listVars, userTable, nextUserId>>

\* the lookup settles: if (user) req is filled; next(); a rejection lands in
\* the catch
optionalAuthMiddleware_FindUnique ==
    /\ auth.pc = "findUnique" /\ auth.mw = "optionalAuthMiddleware"
    /\ \/ /\ "userId" \in DOMAIN auth.decoded
          /\ LET user == FindById(userTable, auth.decoded.userId)
                 a == [auth EXCEPT !.lookup = NoError] IN
             IF user = NoRow
             THEN auth' = CallNext(a)
             ELSE auth' = CallNext(SetUser(a, user))
       \/ /\ "userId" \notin DOMAIN auth.decoded
          /\ auth' = OptionalCatch([auth EXCEPT !.lookup = StorageFailure])
       \/ auth' = OptionalCatch([auth EXCEPT !.lookup = StorageFailure])
    /\ UNCHANGED <<dbVars, reqVars, listVars, userTable, nextUserId>>

\* the request has left the middleware
auth_Leave ==
    /\ auth.pc = "done"
    /\ auth' = NoAuth
    /\ UNCHANGED <<dbVars, reqVars, listVars, userTable, nextUserId>>

NextMiddleware ==
    \/ authMiddleware_Start
    \/ authMiddleware_FindUnique
    \/ optionalAuthMiddleware_Start
    \/ optionalAuthMiddleware_FindUnique
    \/ auth_Leave

SpecMiddleware == InitMiddleware /\ [][NextMiddleware]_vars

\* -------------------------------------------- UserService.changePassword
UserNotFound == "Usuário não encontrado"
WrongPassword == "Senha atual incorreta"
Passwords == {"secret1", "secret2"}

changePassword_Start(r, id, currentPassword, newPassword) ==
    /\ pc[r] = "idle"
    /\ pc' = [pc EXCEPT ![r] = "changePassword:findUnique"]
    /\ args' = [args EXCEPT ![r] =
                  [op |-> "changePassword", id |-> id,
                   currentPassword |-> currentPassword,
                   newPassword |-> newPassword, user |-> NoRow]]
    /\ UNCHANGED <<dbVars, dog, prediction, result, calls>>
    /\ UNCHANGED <<listVars, authVars>>

\* const user = await prisma.user.findUnique({ where: { id } });
\* if (!user) throw new Error('Usuário não encontrado')
changePassword_FindUnique(r) ==
    /\ pc[r] = "changePassword:findUnique"
    /\ \/ LET user == userTable[args[r].id] IN
          /\ Log(r, Call("user.findUnique", NoError,
                         IF user = NoRow THEN Null ELSE "found"))
          /\ args' = [args EXCEPT ![r].user = user]
          /\ IF user = NoRow
             THEN Settle(r, Rejected(UserNotFound))
             ELSE /\ pc' = [pc EXCEPT ![r] = "changePassword:compare"]
                  /\ UNCHANGED result
       \/ /\ Log(r, Call("user.findUnique", StorageFailure, Null))
          /\ Settle(r, Rejected(StorageFailure))
          /\ UNCHANGED args
    /\ UNCHANGED <<dbVars, dog, prediction>>
    /\ UNCHANGED <<listVars, authVars>>

\* variant: the check left out
PasswordCheckSkipped(isPasswordValid) == NoResult

\* if (!isPasswordValid) throw new Error('Senha atual incorreta')
PasswordCheck(isPasswordValid) ==
    IF ~isPasswordValid THEN Rejected(WrongPassword) ELSE NoResult

\* const isPasswordValid = await bcrypt.compare(currentPassword,
\* user.password), against the row the lookup returned
changePassword_Compare(r) ==
    /\ pc[r] = "changePassword:compare"
    /\ Log(r, Call("bcrypt.compare", NoError, Null))
    /\ LET checked == PasswordCheck(bcryptCompare(args[r].currentPassword,
                                                  args[r].user.password)) IN
       IF checked = NoResult
       THEN /\ pc' = [pc EXCEPT ![r] = "changePassword:hash"]
            /\ UNCHANGED result
       ELSE Settle(r, checked)
    /\ UNCHANGED <<dbVars, args, dog, prediction>>
    /\ UNCHANGED <<listVars, authVars>>

\* const hashedPassword = await bcrypt.hash(newPassword, 12)
changePassword_Hash(r) ==
    /\ pc[r] = "changePassword:hash"
    /\ Log(r, Call("bcrypt.hash", NoError, Null))
    /\ pc' = [pc EXCEPT ![r] = "changePassword:update"]
    /\ UNCHANGED <<dbVars, args, dog, prediction, result>>
    /\ UNCHANGED <<listVars, authVars>>

\* await prisma.user.update({ where: { id }, data: { password:
\* hashedPassword } }); return true
changePassword_Update(r) ==
    /\ pc[r] = "changePassword:update"
    /\ LET id == args[r].id IN
       \/ /\ userTable[id] # NoRow
          /\ userTable' = [userTable EXCEPT
                             ![id].password = bcryptHash(args[r].newPassword)]
          /\ Log(r, Call("user.update", NoError, Null))
          /\ Settle(r, Resolved(TRUE))
       \/ /\ userTable[id] = NoRow
          /\ Log(r, Call("user.update", RecordNotFound, Null))
          /\ Settle(r, Rejected(RecordNotFound))
          /\ UNCHANGED userTable
       \/ /\ Log(r, Call("user.update", StorageFailure, Null))
          /\ Settle(r, Rejected(StorageFailure))
          /\ UNCHANGED userTable
    /\ UNCHANGED <<dbVars, args, dog, prediction>>
    /\ UNCHANGED <<listVars, nextUserId, auth>>

\* the accounts registered, but for the last one, which is deleted
InitPassword ==
    /\ dogs = [i \in DogIds |-> NoRow]
    /\ nextId = 1
    /\ pc = [r \in Reqs |-> "idle"]
    /\ args = [r \in Reqs |-> NoArgs]
    /\ dog = [r \in Reqs |-> NoRow]
    /\ prediction = [r \in Reqs |-> NoPrediction]
    /\ result = [r \in Reqs |-> NoResult]
    /\ calls = [r \in Reqs |-> <<>>]
    /\ listing = NoListing
    /\ userTable = AccountTable(UserIds \ {MaxUsers})
    /\ nextUserId = MaxUsers + 1
    /\ auth = NoAuth

\* password changes of the first account and of the deleted one, and logins
\* to the first account, in any interleaving
NextPassword ==
    \/ \E r \in Reqs, id \in {1, MaxUsers}, current, new \in Passwords :
          changePassword_Start(r, id, current, new)
    \/ \E r \in Reqs : changePassword_FindUnique(r)
    \/ \E r \in Reqs : changePassword_Compare(r)
    \/ \E r \in Reqs : changePassword_Hash(r)
    \/ \E r \in Reqs : changePassword_Update(r)
    \/ \E r \in Reqs, password \in Passwords :
          login_Start(r, [email |-> AccountInput(1).email, password |-> password])
    \/ \E r \in Reqs : login_FindUnique(r)
    \/ \E r \in Reqs : login_Compare(r)
    \/ \E r \in Reqs : Respond(r)

SpecPassword == InitPassword /\ [][NextPassword]_vars

\* ------------------------------ the protected routes, account deletion
\* request bodies of POST /api/dogs and PUT /api/dogs/:id: JSON with the
\* fields the routes read and a userId field they do not; a coordinate is
\* numeric text (parseFloat reads a JSON number alike)
PlainBody ==
    [description |-> "d", imageUrl |-> Absent, latitude |-> <<"1">>,
     longitude |-> <<"0">>, breed |-> Absent, color |-> Absent,
     size |-> Absent, status |-> Absent, userId |-> Absent]
DogBodies ==
    {[PlainBody EXCEPT !.userId = "u2"],
     [PlainBody EXCEPT !.latitude = <<"9", "1">>, !.longitude = <<"1", "8", "1">>],
     [PlainBody EXCEPT !.latitude = AbsentParam, !.status = "perdido"]}

\* !description || latitude === undefined || longitude === undefined
PostInvalid(body) ==
    \/ ~Truthy(body.description)
    \/ body.latitude = AbsentParam
    \/ body.longitude = AbsentParam

\* dogService.create({ description, imageUrl, latitude: parseFloat(latitude),
\* longitude: parseFloat(longitude), breed, color, size, status,
\* userId: req.userId! })
PostData(body, userId) ==
    [description |-> body.description, imageUrl |-> body.imageUrl,
     latitude |-> parseFloat(body.latitude).value,
     longitude |-> parseFloat(body.longitude).value,
     breed |-> body.breed, color |-> body.color, size |-> body.size,
     status |-> body.status, userId |-> userId]

\* the coordinates of the body that are not undefined
DefinedCoordinates(body) == {f \in Coordinates : body[f] # AbsentParam}

\* variant: the whole body handed to the service, userId included
PutDataWholeBody(body) ==
    [f \in (DOMAIN body \ Coordinates) \cup DefinedCoordinates(body) |->
        IF f \in Coordinates THEN parseFloat(body[f]).value ELSE body[f]]

\* the third argument of dogService.update(id, req.userId!, {...}), with
\* latitude: latitude !== undefined ? parseFloat(latitude) : undefined
PutData(body) ==
    [f \in {"description", "imageUrl", "breed", "color", "size", "status"}
              \cup DefinedCoordinates(body) |->
        IF f \in Coordinates THEN parseFloat(body[f]).value ELSE body[f]]

\* authMiddleware has called next(): the route's handler runs with req.userId
Passed == auth.pc = "done" /\ auth.mw = "authMiddleware" /\ auth.nextCalls = 1

\* router.post('/'): the validation's 400, or dogService.create is called
postDogs_Handle(r, body) ==
    /\ Passed /\ pc[r] = "idle"
    /\ IF PostInvalid(body)
       THEN /\ pc' = [pc EXCEPT ![r] = "done"]
            /\ args' = [args EXCEPT ![r] =
                  [op |-> "post:invalid", authUser |-> auth.req.userId,
                   response |-> ErrorResponse(400, "VALIDATION_ERROR",
                       "Descrição, latitude e longitude são obrigatórios")]]
       ELSE /\ pc' = [pc EXCEPT ![r] = "create:insert"]
            /\ args' = [args EXCEPT ![r] =
                  [op |-> "create", authUser |-> auth.req.userId,
                   input |-> PostData(body, OwnerName(auth.req.userId))]]
    /\ auth' = NoAuth
    /\ UNCHANGED <<dbVars, dog, prediction, result, calls>>
    /\ UNCHANGED <<listVars, userTable, nextUserId>>

\* router.put('/:id'): dogService.update(id, req.userId!, {...}) is called
putDog_Handle(r, id, body) ==
    /\ Passed /\ pc[r] = "idle"
    /\ pc' = [pc EXCEPT ![r] = "update:findFirst"]
    /\ args' = [args EXCEPT ![r] =
          [op |-> "update", authUser |-> auth.req.userId,
           id |-> id, userId |-> OwnerName(auth.req.userId),
           input |-> PutData(body)]]
    /\ auth' = NoAuth
    /\ UNCHANGED <<dbVars, dog, prediction, result, calls>>
    /\ UNCHANGED <<listVars, userTable, nextUserId>>

\* router.delete('/:id'): dogService.delete(id, req.userId!) is called
deleteDog_Handle(r, id) ==
    /\ Passed /\ pc[r] = "idle"
    /\ pc' = [pc EXCEPT ![r] = "delete:findFirst"]
    /\ args' = [args EXCEPT ![r] =
          [op |-> "delete", authUser |-> auth.req.userId,
           id |-> id, userId |-> OwnerName(auth.req.userId)]]
    /\ auth' = NoAuth
    /\ UNCHANGED <<dbVars, dog, prediction, result, calls>>
    /\ UNCHANGED <<listVars, userTable, nextUserId>>

\* router.delete('/me'): userService.delete(req.userId!) is called
deleteMe_Handle(r) ==
    /\ Passed /\ pc[r] = "idle"
    /\ pc' = [pc EXCEPT ![r] = "user:delete"]
    /\ args' = [args EXCEPT ![r] =
          [op |-> "user.delete", authUser |-> auth.req.userId,
           id |-> auth.req.userId]]
    /\ auth' = NoAuth
    /\ UNCHANGED <<dbVars, dog, prediction, result, calls>>
    /\ UNCHANGED <<listVars, userTable, nextUserId>>

\* variant: the user's sightings left in place
CascadeNone(table, userId) == table

\* ON DELETE CASCADE of dogs_userId_fkey
Cascade(table, userId) ==
    [i \in DOMAIN table |->
        IF table[i] # NoRow /\ table[i].userId = userId THEN NoRow ELSE table[i]]

\* await prisma.user.delete({ where: { id } }); return true
userDelete_Write(r) ==
    /\ pc[r] = "user:delete"
    /\ LET id == args[r].id IN
       \/ /\ userTable[id] # NoRow
          /\ userTable' = [userTable EXCEPT ![id] = NoRow]
          /\ dogs' = Cascade(dogs, OwnerName(id))
          /\ Log(r, Call("user.delete", NoError, Null))
          /\ Settle(r, Resolved(TRUE))
       \/ /\ userTable[id] = NoRow
          /\ Log(r, Call("user.delete", RecordNotFound, Null))
          /\ Settle(r, Rejected(RecordNotFound))
          /\ UNCHANGED <<dogs, userTable>>
       \/ /\ Log(r, Call("user.delete", StorageFailure, Null))
          /\ Settle(r, Rejected(StorageFailure))
          /\ UNCHANGED <<dogs, userTable>>
    /\ UNCHANGED <<nextId, args, dog, prediction>>
    /\ UNCHANGED <<listVars, nextUserId, auth>>

\* the request presents a token the service issued to an account
IssuedToken(a) ==
    \E id \in UserIds : a.req.authorization = <<"Bearer", generateToken(id)>>

\* requests to the protected routes, each presenting an issued token to
\* authMiddleware, with the accounts being deleted meanwhile
NextAccounts ==
    \/ authMiddleware_Start /\ IssuedToken(auth')
    \/ authMiddleware_FindUnique
    \/ auth_Leave
    \/ \E r \in Reqs, body \in DogBodies : postDogs_Handle(r, body)
    \/ \E r \in Reqs, id \in TargetIds, body \in DogBodies : putDog_Handle(r, id, body)
    \/ \E r \in Reqs, id \in TargetIds : deleteDog_Handle(r, id)
    \/ \E r \in Reqs : deleteMe_Handle(r)
    \/ \E r \in Reqs : create_Insert(r)
    \/ \E r \in Reqs : update_FindFirst(r)
    \/ \E r \in Reqs : update_Write(r)
    \/ \E r \in Reqs : delete_FindFirst(r)
    \/ \E r \in Reqs : delete_Write(r)
    \/ \E r \in Reqs : userDelete_Write(r)
    \/ \E r \in Reqs : Respond(r)

SpecAccounts == Init /\ [][NextAccounts]_vars

\* ================================================================ claims
Last(s) == s[Len(s)]
Writes == {"dog.update", "dog.delete"}
StorageCalls == {"dog.create", "dog.findFirst", "dog.update", "dog.delete"}
IssuedWrites(r) == {i \in DOMAIN calls[r] : calls[r][i].call \in Writes}
Mutator(r) == args[r].op \in {"update", "delete"}
\* request r's target, as its ownership lookup saw it
LookedUp(r) == Len(calls[r]) >= 1 /\ calls[r][1].call = "dog.findFirst"
                  /\ calls[r][1].error = NoError
TargetAbsent(r) == LookedUp(r) /\ calls[r][1].owner = Null
TargetForeign(r) == LookedUp(r) /\ calls[r][1].owner \notin {Null, args[r].userId}

\* C1: every update or delete that DogService.update / DogService.delete
\* applied to a row was requested by the user who owned the row at that moment.
OnlyOwnerMutates ==
    \A r \in Reqs : Mutator(r) =>
        \A i \in IssuedWrites(r) :
            calls[r][i].error = NoError => calls[r][i].owner = args[r].userId

\* an owner's update was applied while another user's update of the same row
\* was turned down
OwnerMutatedOtherRefused ==
    \E r1, r2 \in Reqs :
        /\ pc[r1] = "done" /\ pc[r2] = "done"
        /\ args[r1].op = "update" /\ args[r2].op = "update"
        /\ result[r1].kind = "resolved"
        /\ args[r2].id = args[r1].id /\ args[r2].userId # args[r1].userId
        /\ TargetForeign(r2)
        /\ result[r2].kind = "rejected"

\* no row has both the id and the userId the request names
NoMatch(r) ==
    ~ \E id \in DOMAIN dogs :
        id = args[r].id /\ dogs[id] # NoRow /\ dogs[id].userId = args[r].userId

\* C2: when the ownership lookup of update or delete finds no row with both
\* the id and the userId, the call fails with 'Cachorro não encontrado ou você
\* não tem permissão', has issued no storage update/delete, and the table is
\* as it was.
NoMatchFailsWithoutWrite ==
    [][\A r \in Reqs :
          (/\ pc[r] \in {"update:findFirst", "delete:findFirst"}
           /\ pc'[r] # pc[r]
           /\ Last(calls'[r]).error = NoError
           /\ NoMatch(r))
          => /\ pc'[r] = "done"
             /\ result'[r] = Rejected(NotFoundOrForbidden)
             /\ dogs' = dogs
             /\ \A i \in DOMAIN calls'[r] : calls'[r][i].call \notin Writes]_vars

\* a delete of another user's existing row was refused
ForeignDeleteRefused ==
    \E r \in Reqs :
        /\ pc[r] = "done" /\ args[r].op = "delete"
        /\ TargetForeign(r)
        /\ result[r] = Rejected(NotFoundOrForbidden)
        /\ dogs[args[r].id] # NoRow

\* C3: a non-owner's update (or delete) of an id that does not exist and of
\* an id that belongs to someone else get the same response from the route,
\* and neither issues a storage write.
AbsentAndForeignAlike ==
    \A r1, r2 \in Reqs :
        (/\ pc[r1] = "done" /\ pc[r2] = "done"
         /\ Mutator(r1) /\ args[r2].op = args[r1].op
         /\ TargetAbsent(r1) /\ TargetForeign(r2))
        => /\ RouteResponse(args[r1].op, result[r1])
                = RouteResponse(args[r2].op, result[r2])
           /\ IssuedWrites(r1) = {} /\ IssuedWrites(r2) = {}

\* two finished updates side by side: one of an absent id, one of a foreign row
AbsentBesideForeign ==
    \E r1, r2 \in Reqs :
        /\ pc[r1] = "done" /\ pc[r2] = "done"
        /\ args[r1].op = "update" /\ args[r2].op = "update"
        /\ TargetAbsent(r1) /\ TargetForeign(r2)
        /\ dogs[args[r2].id] # NoRow

NoBreed == {Null, Absent, ""}
\* the record create returned is the one its insert produced from the input
AsCreated(d, input) ==
    /\ d.description = input.description
    /\ d.imageUrl = input.imageUrl
    /\ d.breed \in NoBreed
    /\ d.status = DefaultStatus
    /\ d.userId = input.userId

\* C4: when the prediction of a create with image and without breed throws
\* or answers an empty breed, create resolves with the record as inserted
\* (no breed), issues no storage update, and the step changes no row.
PredictionFailureIgnored ==
    [][\A r \in Reqs :
          (/\ pc[r] = "create:predict"
           /\ pc'[r] # pc[r]
           /\ \/ Last(calls'[r]).error # NoError
              \/ prediction'[r].breed \in NoBreed)
          => /\ pc'[r] = "done"
             /\ result'[r] = Resolved(dog[r])
             /\ AsCreated(dog[r], args[r].input)
             /\ dogs' = dogs
             /\ \A i \in DOMAIN calls'[r] : calls'[r][i].call \notin Writes]_vars

\* a create whose prediction threw has returned, its row still stored
ThrownPredictionReturned ==
    \E r \in Reqs :
        /\ pc[r] = "done" /\ args[r].op = "create"
        /\ Len(calls[r]) = 2 /\ calls[r][2].error = MLFailure
        /\ result[r].kind = "resolved"
        /\ dogs[result[r].value.id] # NoRow
        /\ dogs[result[r].value.id].breed \in NoBreed

\* C5: a create that is waiting for the prediction eventually returns.
CreateEventuallyReturns ==
    \A r \in Reqs : (pc[r] = "create:predict") ~> (pc[r] = "done")

\* C6: once an operation has finished, every failure a storage call of it
\* raised is the failure the operation rejected with.
StorageFailuresPropagate ==
    \A r \in Reqs : pc[r] = "done" =>
        \A i \in DOMAIN calls[r] :
            (calls[r][i].call \in StorageCalls /\ calls[r][i].error # NoError)
            => result[r] = Rejected(calls[r][i].error)

PredictionCalls(r) == {i \in DOMAIN calls[r] : calls[r][i].call = "ml.predictBreed"}
ImageWithoutBreed(input) ==
    input.imageUrl \notin {Absent, ""} /\ input.breed \in {Absent, ""}

\* C7: a create calls the prediction collaborator at most once, and only for
\* an input with an image and without a breed; for any other input it issues
\* no breed update either.
PredictOnlyImageWithoutBreed ==
    \A r \in Reqs : args[r].op = "create" =>
        /\ Cardinality(PredictionCalls(r)) <= 1
        /\ PredictionCalls(r) # {} => ImageWithoutBreed(args[r].input)
        /\ ~ImageWithoutBreed(args[r].input) => IssuedWrites(r) = {}

\* a create with image and breed has returned after its insert alone
SuppliedBreedNotPredicted ==
    \E r \in Reqs :
        /\ pc[r] = "done" /\ args[r].op = "create"
        /\ args[r].input.imageUrl = "img" /\ args[r].input.breed = "Lab"
        /\ result[r].kind = "resolved"
        /\ Len(calls[r]) = 1

\* C8: when the breed update of a create is applied, the row's breed is the
\* predicted breed, no other field and no other row changes, and create
\* resolves with that row and its owner's id, name and email.
PredictedBreedPersisted ==
    [][\A r \in Reqs :
          (/\ pc[r] = "create:update"
           /\ pc'[r] # pc[r]
           /\ Last(calls'[r]).error = NoError)
          => LET id == dog[r].id
                 u == args[r].input.userId IN
             /\ dogs'[id].breed = prediction[r].breed
             /\ \A f \in DOMAIN dogs[id] \ {"breed"} : dogs'[id][f] = dogs[id][f]
             /\ \A j \in DogIds \ {id} : dogs'[j] = dogs[j]
             /\ result'[r].kind = "resolved"
             /\ \A f \in DOMAIN dogs'[id] : result'[r].value[f] = dogs'[id][f]
             /\ result'[r].value.user =
                   [id |-> u, name |-> "name-" \o u, email |-> u \o "@mail"]]_vars

\* a create has returned the row with the predicted breed, which is stored
PredictedBreedReturned ==
    \E r \in Reqs :
        /\ pc[r] = "done" /\ args[r].op = "create"
        /\ Len(calls[r]) = 3 /\ calls[r][3].error = NoError
        /\ result[r].kind = "resolved"
        /\ result[r].value.breed = "Poodle"
        /\ dogs[result[r].value.id] # NoRow
        /\ dogs[result[r].value.id].breed = "Poodle"

ListResolved == listing.pc = "done" /\ listing.result.kind = "resolved"
RowCount == Cardinality({i \in DOMAIN dogs : dogs[i] # NoRow})
\* how many stored rows are newer than the record d
NewerThan(d) ==
    Cardinality({i \in DOMAIN dogs : dogs[i] # NoRow /\ dogs[i].createdAt > d.createdAt})

\* C9: for page >= 1 and pageSize >= 1, findAll returns at most pageSize
\* records, the stored rows at newest-first positions offset+1 .. offset+pageSize
\* with offset = (page-1)*pageSize, and {page, limit, total, totalPages} with
\* total the row count and totalPages its ceiling quotient by pageSize; no rows
\* give an empty page and totalPages 0; 100 rows, page 2 of 50 asks for skip 50,
\* take 50 and reports totalPages 2.
FindAllPaginates ==
    (ListResolved /\ listing.page >= 1 /\ listing.limit >= 1) =>
        LET value == listing.result.value
            n == RowCount
            offset == (listing.page - 1) * listing.limit
            rest == IF n > offset THEN n - offset ELSE 0
            pages == value.pagination.totalPages IN
        /\ Len(value.dogs) <= listing.limit
        /\ Len(value.dogs) = IF rest < listing.limit THEN rest ELSE listing.limit
        /\ \A k \in 1..Len(value.dogs) :
              /\ NewerThan(value.dogs[k]) = offset + k - 1
              /\ \A f \in DOMAIN dogs[value.dogs[k].id] :
                    value.dogs[k][f] = dogs[value.dogs[k].id][f]
        /\ value.pagination.page = listing.page
        /\ value.pagination.limit = listing.limit
        /\ value.pagination.total = n
        /\ pages * listing.limit >= n /\ (pages - 1) * listing.limit < n
        /\ n = 0 => value.dogs = <<>> /\ pages = 0
        /\ (n = 100 /\ listing.page = 2 /\ listing.limit = 50) =>
              listing.skip = 50 /\ listing.take = 50 /\ pages = 2

\* page 2 of 50 over the 100 fixture rows has been returned: rows 51 to 100
SecondPageOfHundred ==
    /\ ListResolved
    /\ RowCount = 100 /\ listing.page = 2 /\ listing.limit = 50
    /\ Len(listing.result.value.dogs) = 50
    /\ listing.result.value.dogs[1].createdAt = 50
    /\ listing.result.value.pagination.totalPages = 2

\* C10: whatever the query string holds, findAll is called with page >= 1 and
\* pageSize >= 1, 1 and 50 when the parameter is absent, and its offset is
\* never negative.
PageAndLimitAtLeastOne ==
    listing.pc # "idle" =>
        /\ listing.page >= 1
        /\ listing.limit >= 1
        /\ listing.query.page = AbsentParam => listing.page = 1
        /\ listing.query.limit = AbsentParam => listing.limit = 50
        /\ listing.skip >= 0

\* ------------------------------------------------ search and map claims
SearchResolved ==
    listing.pc = "done" /\ listing.op = "search" /\ listing.result.kind = "resolved"
MapResolved ==
    listing.pc = "done" /\ listing.op = "map" /\ listing.result.kind = "resolved"
Given(v) == v \notin {Absent, ""}
TextColumns == {"description", "breed", "color"}
\* the text occurs in the column, letter case apart
Mentions(row, column, text) ==
    /\ row[column] # Null
    /\ Contains(toLowerCase(Spelling(row[column])), toLowerCase(Spelling(text)))
QueryStatusSize(row, f) ==
    /\ Given(f.query) => \E column \in TextColumns : Mentions(row, column, f.query)
    /\ Given(f.status) => row.status = f.status
    /\ Given(f.size) => row.size = f.size
BreedMentioned(row, f) == Given(f.breed) => Mentions(row, "breed", f.breed)
NoRadius(f) == NoNumber \in {f.latitude, f.longitude, f.radiusKm}
ReturnedIds(rows) == {rows[k].id : k \in DOMAIN rows}
IsNewestFirst(rows) ==
    \A j, k \in DOMAIN rows : j < k => rows[j].createdAt > rows[k].createdAt

\* C11: a search returns, newest first, only rows that mention a present
\* query in description, breed or color (letter case apart) and that have
\* exactly the present status and size; with no breed and no radius given it
\* returns every such row, an absent filter constraining nothing.
SearchCompilesFilters ==
    SearchResolved =>
        LET f == listing.filters
            rows == listing.result.value IN
        /\ IsNewestFirst(rows)
        /\ \A k \in DOMAIN rows :
              /\ Exists(dogs, rows[k].id)
              /\ rows[k] = IncludeUserName(dogs[rows[k].id])
              /\ QueryStatusSize(rows[k], f)
        /\ (~Given(f.breed) /\ NoRadius(f)) =>
              ReturnedIds(rows) = {i \in StoredIds(dogs) : QueryStatusSize(dogs[i], f)}

\* a query in capitals with a status returned some rows and left others out
QueryWithStatusSearched ==
    /\ SearchResolved
    /\ listing.filters.query = "LA" /\ listing.filters.status = "perdido"
    /\ listing.result.value # <<>>
    /\ Len(listing.result.value) < Count(dogs)

\* C12 (as the code has it): the breed-substring filter applies whenever
\* breed is present, with a query or without one: every returned row's breed
\* contains it, letter case apart, and with no radius given the rows returned
\* are exactly those that pass the query, status, size and breed filters.
BreedFilterWheneverPresent ==
    SearchResolved =>
        LET f == listing.filters
            rows == listing.result.value IN
        /\ \A k \in DOMAIN rows : BreedMentioned(rows[k], f)
        /\ NoRadius(f) =>
              ReturnedIds(rows) =
                 {i \in StoredIds(dogs) :
                     QueryStatusSize(dogs[i], f) /\ BreedMentioned(dogs[i], f)}

\* a query and a breed were combined, and a row the query alone would return
\* was left out by the breed filter
QueryAndBreedCombined ==
    /\ SearchResolved
    /\ Given(listing.filters.query) /\ Given(listing.filters.breed)
    /\ listing.result.value # <<>>
    /\ \E i \in StoredIds(dogs) :
          /\ QueryStatusSize(dogs[i], listing.filters)
          /\ i \notin ReturnedIds(listing.result.value)

\* C12 as stated: the separate breed filter applies only when no query is
\* combined with it, so with a query present the breed constrains nothing.
BreedFilterOnlyWithoutQuery ==
    (SearchResolved /\ Given(listing.filters.query) /\ NoRadius(listing.filters)) =>
        ReturnedIds(listing.result.value) =
           {i \in StoredIds(dogs) : QueryStatusSize(dogs[i], listing.filters)}

\* C13: when latitude, longitude and a numeric radiusKm are all supplied, 0
\* included, no returned row is farther than radiusKm from the point.
RadiusNeverExceeded ==
    LET f == listing.filters IN
    (SearchResolved /\ ~NoRadius(f)
        /\ ~f.latitude.nan /\ ~f.longitude.nan /\ ~f.radiusKm.nan) =>
        \A k \in DOMAIN listing.result.value :
            calculateDistance(f.latitude.value, f.longitude.value,
                              listing.result.value[k].latitude,
                              listing.result.value[k].longitude)
               <= 1000 * f.radiusKm.value

InsideBounds(row, b) ==
    b = NoBounds \/ (/\ row.latitude \in b.south..b.north
                     /\ row.longitude \in b.west..b.east)
NewerInside(i, b) ==
    {j \in StoredIds(dogs) :
        InsideBounds(dogs[j], b) /\ dogs[j].createdAt > dogs[i].createdAt}

\* C14: getForMap returns at most 100 rows, newest first: exactly the rows
\* inside the bounds (every row without bounds) that have fewer than 100 newer
\* rows inside the bounds.
MapReturnsNewestHundred ==
    MapResolved =>
        LET rows == listing.result.value
            b == listing.bounds IN
        /\ Len(rows) <= 100
        /\ IsNewestFirst(rows)
        /\ ReturnedIds(rows) =
              {i \in StoredIds(dogs) :
                  InsideBounds(dogs[i], b) /\ Cardinality(NewerInside(i, b)) < 100}

\* more than 100 rows matched and 100 were returned
MapCapApplied ==
    /\ MapResolved
    /\ Cardinality({i \in StoredIds(dogs) : InsideBounds(dogs[i], listing.bounds)}) > 100
    /\ Len(listing.result.value) = 100

MarkerFieldNames ==
    {"id", "latitude", "longitude", "imageUrl", "description", "status", "breed",
     "createdAt"}

\* C15: every element getForMap returns and every marker the route emits has
\* marker fields only, never the owner's id or the owner.
MapHidesOwner ==
    (listing.pc = "done" /\ listing.op = "map" /\ listing.response.status = 200) =>
        /\ \A k \in DOMAIN listing.result.value :
              DOMAIN listing.result.value[k] \subseteq MarkerFieldNames
        /\ \A k \in DOMAIN listing.response.body.markers :
              DOMAIN listing.response.body.markers[k] \subseteq MarkerFieldNames

\* markers of rows owned by two different users were emitted
MarkersOfTwoOwners ==
    /\ MapResolved
    /\ \E j, k \in DOMAIN listing.response.body.markers :
          dogs[listing.response.body.markers[j].id].userId
             # dogs[listing.response.body.markers[k].id].userId

\* ------------------------------------------------------------ auth claims
StoredUsers == {i \in DOMAIN userTable : userTable[i] # NoRow}
AccountsOf(email) ==
    {i \in StoredUsers : userTable[i].email = toLowerCase(email)}
CallNames(r) == {calls[r][i].call : i \in DOMAIN calls[r]}
\* request r's lookup by email ran and found an account / found none
LookupFound(r) ==
    /\ Len(calls[r]) >= 1
    /\ calls[r][1] = Call("user.findUnique", NoError, "found")
LookupEmpty(r) ==
    /\ Len(calls[r]) >= 1
    /\ calls[r][1] = Call("user.findUnique", NoError, Null)

\* C16: the register step that looks up an address which, lowercased, already
\* belongs to an account fails the call with 'Email já cadastrado', issues no
\* hash, create or token call and leaves the accounts unchanged.
DuplicateEmailRefused ==
    [][\A r \in Reqs :
          (/\ pc[r] = "register:findUnique" /\ pc'[r] # pc[r]
           /\ AccountsOf(args[r].input.email) # {}
           /\ Last(calls'[r]).error = NoError) =>
             /\ pc'[r] = "done"
             /\ result'[r] = Rejected(EmailTaken)
             /\ calls'[r] = Append(calls[r], Call("user.findUnique", NoError, "found"))
             /\ userTable' = userTable /\ nextUserId' = nextUserId]_vars

\* a registration of an address in capitals was refused because the
\* lowercase address was registered
CapitalsDuplicateRefused ==
    \E r \in Reqs :
        /\ pc[r] = "done" /\ args[r].op = "register"
        /\ args[r].input.email = <<"A">>
        /\ \E i \in StoredUsers : userTable[i].email = <<"a">>
        /\ result[r] = Rejected(EmailTaken)
        /\ CallNames(r) = {"user.findUnique"}

\* C17: every stored email is lowercase and no two accounts share an email,
\* in every state of every interleaving of registrations.
EmailsLowercaseAndUnique ==
    \A i \in StoredUsers :
        /\ userTable[i].email = toLowerCase(userTable[i].email)
        /\ \A j \in StoredUsers : i # j => userTable[i].email # userTable[j].email

\* two registrations of one address in different letter case both found it
\* free; one created the account and the other was stopped by the unique index
CaseRaceOneAccount ==
    \E r1, r2 \in Reqs :
        /\ pc[r1] = "done" /\ pc[r2] = "done"
        /\ args[r1].op = "register" /\ args[r2].op = "register"
        /\ args[r1].input.email = <<"a">> /\ args[r2].input.email = <<"A">>
        /\ LookupEmpty(r1) /\ LookupEmpty(r2)
        /\ \E w, l \in {r1, r2} :
              /\ result[w].kind = "resolved"
              /\ result[l] = Rejected(UniqueViolation)
        /\ Cardinality(AccountsOf(<<"a">>)) = 1

LoginDone(r) == pc[r] = "done" /\ args[r].op = "login"
PasswordWrong(r) ==
    LookupFound(r) /\ args[r].user.password # bcryptHash(args[r].input.password)

\* C18: a login whose address is unknown and a login whose password is wrong
\* fail with the same 'Credenciais inválidas' and sign no token; a login
\* returns a token only for an account the lowercased address names and whose
\* stored hash the password matches.
LoginFailuresAlike ==
    \A r \in Reqs : LoginDone(r) =>
        /\ (LookupEmpty(r) \/ PasswordWrong(r)) =>
              /\ result[r] = Rejected(InvalidCredentials)
              /\ "jwt.sign" \notin CallNames(r)
        /\ result[r].kind = "rejected" => "jwt.sign" \notin CallNames(r)
        /\ result[r].kind = "resolved" =>
              \E i \in AccountsOf(args[r].input.email) :
                  /\ userTable[i].password = bcryptHash(args[r].input.password)
                  /\ result[r].value =
                        [user |-> [id |-> i, email |-> userTable[i].email,
                                   name |-> userTable[i].name],
                         token |-> generateToken(i)]

\* an unknown address and a wrong password were both turned down, alike
UnknownAndWrongAlike ==
    \E r1, r2 \in Reqs :
        /\ LoginDone(r1) /\ LoginDone(r2)
        /\ LookupEmpty(r1) /\ PasswordWrong(r2)
        /\ result[r1] = result[r2]

\* ------------------------------------------------------ middleware claims
Left(mw) == auth.pc = "done" /\ auth.mw = mw
Header == auth.req.authorization
IsBearer == Len(Header) >= 2 /\ Header[1] = "Bearer"
\* the header carries a token the service signed for account id
Names(id) == IsBearer /\ Header[2] = generateToken(id)
BadToken == IsBearer /\ Header[2] \in {ExpiredToken, ForgedToken, ""}
\* the user the token names exists and the lookup did not fail
Authenticated ==
    \E id \in StoredUsers : Names(id) /\ auth.lookup = NoError
UnknownUser ==
    \E id \in TokenIds \ StoredUsers : Names(id) /\ auth.lookup = NoError
ReqUnset == DOMAIN auth.req = {"authorization"}
ReqSetTo(id) ==
    /\ DOMAIN auth.req = {"authorization", "userId", "user"}
    /\ auth.req.userId = id
    /\ auth.req.user = [id |-> id, email |-> userTable[id].email,
                        name |-> userTable[id].name]

\* C19: authMiddleware either calls next once and sends nothing, only for a
\* Bearer token that verifies and names an existing user, with req.userId and
\* req.user set to that user, or sends one error response and does not call
\* next: 401 without a Bearer header, for an invalid or expired token or an
\* unknown user, 500 for any other failure.
AuthNextOrError ==
    /\ auth.pc = "findUnique" => (auth.nextCalls = 0 /\ auth.sent = <<>>)
    /\ Left("authMiddleware") =>
          /\ \/ auth.nextCalls = 1 /\ auth.sent = <<>>
             \/ auth.nextCalls = 0 /\ Len(auth.sent) = 1
          /\ auth.nextCalls = 1 <=> Authenticated
          /\ auth.nextCalls = 1 => \E id \in StoredUsers : Names(id) /\ ReqSetTo(id)
          /\ auth.nextCalls = 0 =>
                /\ ReqUnset
                /\ auth.sent[1].status =
                      IF ~IsBearer \/ BadToken \/ UnknownUser THEN 401 ELSE 500

\* an expired token was answered 401 without next
ExpiredTokenRefused ==
    /\ Left("authMiddleware")
    /\ IsBearer /\ Header[2] = ExpiredToken
    /\ auth.nextCalls = 0
    /\ auth.sent = <<ErrorResponse(401, "INVALID_TOKEN", "Token inválido")>>

\* C20: optionalAuthMiddleware calls next exactly once and sends nothing for
\* every request; it sets req.userId and req.user only for a Bearer token that
\* verifies and names an existing user, and leaves both unset otherwise.
OptionalAlwaysNext ==
    /\ auth.pc = "findUnique" => (auth.nextCalls = 0 /\ auth.sent = <<>>)
    /\ Left("optionalAuthMiddleware") =>
          /\ auth.nextCalls = 1 /\ auth.sent = <<>>
          /\ IF Authenticated
             THEN \E id \in StoredUsers : Names(id) /\ ReqSetTo(id)
             ELSE ReqUnset

\* a forged token went through the optional middleware unauthenticated
ForgedTokenPassedUnset ==
    /\ Left("optionalAuthMiddleware")
    /\ IsBearer /\ Header[2] = ForgedToken
    /\ auth.nextCalls = 1 /\ auth.sent = <<>> /\ ReqUnset

\* ------------------------------------------------- later claims, by model
\* C26: an update or delete whose write finds no row under the id, the row
\* having been removed after the ownership lookup, fails with the one
\* 'Cachorro não encontrado ou você não tem permissão' error.
MissingTargetOneErrorKind ==
    \A r \in Reqs :
        (/\ Mutator(r) /\ pc[r] = "done"
         /\ \E i \in IssuedWrites(r) : calls[r][i].error = RecordNotFound) =>
            result[r] = Rejected(NotFoundOrForbidden)

NumericPoint(f) ==
    /\ f.latitude # NoNumber /\ f.longitude # NoNumber
    /\ ~f.latitude.nan /\ ~f.longitude.nan

RadiusSearchExact ==
    SearchResolved =>
        LET f == listing.filters
            rows == listing.result.value
            passing == {i \in StoredIds(dogs) :
                           QueryStatusSize(dogs[i], f) /\ BreedMentioned(dogs[i], f)} IN
        /\ IsNewestFirst(rows)
        /\ NoRadius(f) => ReturnedIds(rows) = passing
        /\ (~NoRadius(f) /\ NumericPoint(f) /\ ~f.radiusKm.nan) =>
              ReturnedIds(rows) =
                 {i \in passing :
                     calculateDistance(f.latitude.value, f.longitude.value,
                                       dogs[i].latitude, dogs[i].longitude)
                        <= 1000 * f.radiusKm.value}

\* the result findAll assembles from the table alone, for a page and a limit
AssembledFrom(table, page, limit) ==
    [dogs |-> findMany(table, Skip(page, limit), limit).dogs,
     pagination |-> [page |-> page, limit |-> limit, total |-> Count(table),
                     totalPages |-> Ceil(Count(table), limit)]]

ListFinished == listing.pc = "done" /\ "fetched" \in DOMAIN listing

\* C28: findAll has no result while either of its two calls is pending unless
\* one has failed; when both succeed the result is the one assembled from the
\* table, whichever call settled first; when either fails findAll rejects and
\* the answer carries no page and no pagination.
FindAllAwaitsBoth ==
    /\ (listing.pc = "findAll") => listing.result = NoResult
    /\ ListFinished =>
          LET failed == \E c \in {listing.fetched, listing.counted} :
                            c.error \notin {NoError, Pending} IN
          /\ failed =>
                /\ listing.result = Rejected(StorageFailure)
                /\ "body" \notin DOMAIN listing.response
                /\ listing.response.status = 500
          /\ ~failed =>
                /\ listing.fetched.error = NoError
                /\ listing.counted.error = NoError
                /\ Len(listing.settled) = 2
                /\ listing.result =
                      Resolved(AssembledFrom(dogs, listing.page, listing.limit))
                /\ listing.response = [status |-> 200, body |-> listing.result.value]

\* the count completed before the page fetch and findAll resolved with a page
\* of two of three rows
CountSettledFirstResolved ==
    /\ ListFinished
    /\ listing.settled = <<"dog.count", "dog.findMany">>
    /\ listing.result.kind = "resolved"
    /\ Len(listing.result.value.dogs) = 2
    /\ listing.result.value.pagination.total = 3

\* the rows findAll returns for page p
PageOf(table, p, limit) == findMany(table, Skip(p, limit), limit).dogs

\* the pages first .. last, one after the other
RECURSIVE PagesFrom(_, _, _, _)
PagesFrom(table, limit, first, last) ==
    IF first > last THEN <<>>
    ELSE PageOf(table, first, limit) \o PagesFrom(table, limit, first + 1, last)

\* every stored row, newest first, as findAll returns rows
AllNewestFirst(table) ==
    [k \in 1..Count(table) |-> IncludeUserName(table[NewestFirst(table)[k]])]

\* C29: for the stored rows and the page size of a listing request, a size of
\* at least 1, the pages 1 .. totalPages one after the other are every stored
\* row once, newest first; every page before the last has pageSize rows; the
\* pages after totalPages are empty; a resolved request returned its page of
\* this sequence and reported this totalPages.
PagesCoverOnce ==
    ("limit" \in DOMAIN listing /\ listing.limit >= 1) =>
        LET limit == listing.limit
            totalPages == Ceil(Count(dogs), limit)
            joined == PagesFrom(dogs, limit, 1, totalPages) IN
        /\ joined = AllNewestFirst(dogs)
        /\ \A j, k \in DOMAIN joined : joined[j].id = joined[k].id => j = k
        /\ {joined[k].id : k \in DOMAIN joined} = StoredIds(dogs)
        /\ \A p \in 1..(totalPages - 1) : Len(PageOf(dogs, p, limit)) = limit
        /\ \A p \in (totalPages + 1)..(totalPages + 2) : PageOf(dogs, p, limit) = <<>>
        /\ (ListFinished /\ listing.result.kind = "resolved" /\ listing.page >= 1) =>
              /\ listing.result.value.dogs = PageOf(dogs, listing.page, limit)
              /\ listing.result.value.pagination.totalPages = totalPages

\* three rows listed two to a page: the second and last page holds one row
LastPagePartial ==
    /\ ListFinished /\ listing.result.kind = "resolved"
    /\ listing.limit = 2 /\ listing.page = 2
    /\ listing.result.value.pagination.total = 3
    /\ listing.result.value.pagination.totalPages = 2
    /\ Len(listing.result.value.dogs) = 1

Changing(r) == args[r].op = "changePassword"
ChangeDone(r) == Changing(r) /\ pc[r] = "done"
StoredPasswords == [i \in UserIds |-> IF userTable[i] = NoRow THEN NoRow
                                      ELSE userTable[i].password]

\* what a finished changePassword did, by how it ended
RefusedChangeWroteNothing ==
    \A r \in Reqs :
        ChangeDone(r) =>
            /\ (LookupEmpty(r)) =>
                  /\ result[r] = Rejected(UserNotFound)
                  /\ CallNames(r) = {"user.findUnique"}
            /\ (LookupFound(r)
                  /\ ~bcryptCompare(args[r].currentPassword, args[r].user.password)) =>
                  /\ result[r] = Rejected(WrongPassword)
                  /\ CallNames(r) = {"user.findUnique", "bcrypt.compare"}
            /\ (result[r].kind = "resolved") =>
                  /\ LookupFound(r)
                  /\ bcryptCompare(args[r].currentPassword, args[r].user.password)
                  /\ CallNames(r) = {"user.findUnique", "bcrypt.compare",
                                      "bcrypt.hash", "user.update"}

\* a finished login answers by the hash its lookup read
LoginByStoredHash ==
    \A r \in Reqs :
        (LoginDone(r) /\ LookupFound(r)) =>
            /\ bcryptCompare(args[r].input.password, args[r].user.password) =>
                  result[r].kind = "resolved"
            /\ ~bcryptCompare(args[r].input.password, args[r].user.password) =>
                  result[r] = Rejected(InvalidCredentials)

\* the steps that touch stored passwords
PasswordSteps ==
    \A r \in Reqs :
        /\ (Changing(r) /\ pc[r] # "done" /\ pc'[r] = "done"
              /\ result'[r].kind = "rejected") => userTable' = userTable
        /\ (Changing(r) /\ pc[r] # "done" /\ pc'[r] = "done"
              /\ result'[r].kind = "resolved") =>
              /\ userTable'[args[r].id].password = bcryptHash(args[r].newPassword)
              /\ bcryptCompare(args[r].newPassword, userTable'[args[r].id].password)
              /\ args[r].newPassword # args[r].currentPassword =>
                    ~bcryptCompare(args[r].currentPassword,
                                   userTable'[args[r].id].password)
              /\ \A i \in UserIds \ {args[r].id} : userTable'[i] = userTable[i]

\* C22: changePassword rejects with 'Usuário não encontrado' when its lookup
\* finds no user and with 'Senha atual incorreta' when the current password
\* does not match the hash it read, in both cases with nothing hashed or
\* written and the table unchanged; it resolves only with the matching current
\* password, and the step that resolves it stores the hash of the new
\* password, which the new password matches and a different old one does not;
\* no other step changes a stored password; login answers by the stored hash.
ChangePasswordContract ==
    /\ [](RefusedChangeWroteNothing /\ LoginByStoredHash)
    /\ [][PasswordSteps
            /\ (StoredPasswords' # StoredPasswords =>
                   \E r \in Reqs : Changing(r) /\ pc[r] = "changePassword:update"
                                      /\ result'[r] = Resolved(TRUE))]_vars

\* account 1's password was changed from secret1 to secret2; then a login
\* with secret2 succeeded and a login with secret1 was refused
NewPasswordInOldOut ==
    /\ userTable[1] # NoRow /\ userTable[1].password = bcryptHash("secret2")
    /\ \E r, q \in Reqs :
          /\ LoginDone(r) /\ LookupFound(r)
          /\ args[r].user.password = bcryptHash("secret2")
          /\ args[r].input.password = "secret2" /\ result[r].kind = "resolved"
          /\ LoginDone(q) /\ LookupFound(q)
          /\ args[q].user.password = bcryptHash("secret2")
          /\ args[q].input.password = "secret1"
          /\ result[q] = Rejected(InvalidCredentials)

\* C21: every stored sighting's userId is the id of a stored account.
OwnersExist ==
    \A i \in StoredIds(dogs) : OwnerExists(userTable, dogs[i].userId)

\* account 1 created a sighting and then deleted itself: the sighting went
\* with it
OwnerDeletedWithSighting ==
    /\ userTable[1] = NoRow /\ StoredIds(dogs) = {}
    /\ \E q, r \in Reqs :
          /\ args[q].op = "create" /\ pc[q] = "done"
          /\ result[q].kind = "resolved" /\ result[q].value.userId = "u1"
          /\ args[r].op = "user.delete" /\ args[r].id = 1
          /\ result[r] = Resolved(TRUE)

\* C23: no step changes the userId of a stored sighting, whatever the body of
\* the update, and a step that stores a new sighting is a create whose row
\* carries the userId of the user authMiddleware authenticated.
OwnerNeverChanges ==
    [][\A i \in DOMAIN dogs :
          /\ (dogs[i] # NoRow /\ dogs'[i] # NoRow) => dogs'[i].userId = dogs[i].userId
          /\ (dogs[i] = NoRow /\ dogs'[i] # NoRow) =>
                \E r \in Reqs :
                    /\ pc[r] = "create:insert" /\ pc'[r] # pc[r]
                    /\ dogs'[i].userId = OwnerName(args[r].authUser)]_vars

BodyNamingOther == [PlainBody EXCEPT !.userId = "u2"]

\* user 1 created a sighting and updated it, both with a body naming u2 as
\* userId: the sighting is still user 1's
OtherOwnerInBodyIgnored ==
    \E q, r \in Reqs :
        /\ args[q].op = "create" /\ pc[q] = "done" /\ args[q].authUser = 1
        /\ args[q].input = PostData(BodyNamingOther, "u1")
        /\ result[q].kind = "resolved"
        /\ args[r].op = "update" /\ pc[r] = "done" /\ args[r].authUser = 1
        /\ args[r].input = PutData(BodyNamingOther)
        /\ result[r].kind = "resolved" /\ result[r].value.userId = "u1"
        /\ dogs[args[r].id].userId = "u1"

\* C24: every stored sighting has latitude in [-90, 90] and longitude in
\* [-180, 180].
CoordinatesInRange ==
    \A i \in StoredIds(dogs) :
        /\ 0 - 90 <= dogs[i].latitude /\ dogs[i].latitude <= 90
        /\ 0 - 180 <= dogs[i].longitude /\ dogs[i].longitude <= 180

DogWrites == {"dog.create", "dog.update", "dog.delete"}
NotFoundAnswer == ErrorResponse(401, "UNAUTHORIZED", "Usuário não encontrado")

\* C27: an authentication check whose lookup runs when the token's account is
\* deleted answers 401 'Usuário não encontrado' and does not call next (a
\* lookup that fails answers 500 and does not call next either); a handler
\* starts only for a request that passed the check, as the user the check
\* found; and a step in which a sighting is created, updated or deleted is
\* taken for a user whose account exists at that step.
DeletedUserShutOut ==
    [][/\ (auth.pc = "findUnique" /\ auth'.pc = "done") =>
             /\ (auth'.lookup = NoError /\ userTable[auth.decoded.userId] = NoRow) =>
                   /\ auth'.sent = <<NotFoundAnswer>>
                   /\ auth'.nextCalls = 0
             /\ auth'.lookup # NoError =>
                   /\ auth'.nextCalls = 0 /\ Len(auth'.sent) = 1
                   /\ auth'.sent[1].status = 500
             /\ auth'.nextCalls = 1 =>
                   /\ auth'.sent = <<>>
                   /\ userTable[auth.decoded.userId] # NoRow
                   /\ auth'.req.userId = auth.decoded.userId
       /\ \A r \in Reqs :
             /\ (pc[r] = "idle" /\ pc'[r] # "idle") =>
                   /\ Passed /\ auth.sent = <<>>
                   /\ args'[r].authUser = auth.req.userId
             /\ (Len(calls'[r]) > Len(calls[r])
                    /\ Last(calls'[r]).call \in DogWrites
                    /\ Last(calls'[r]).error = NoError) =>
                   userTable[args[r].authUser] # NoRow]_vars

\* account 1 is deleted: a create on its behalf that had passed the check
\* before was refused by the foreign key, and a request presenting its token
\* afterwards is answered 401
DeletedUserRefusedTwice ==
    /\ userTable[1] = NoRow
    /\ auth.pc = "done" /\ auth.decoded = [userId |-> 1]
    /\ auth.sent = <<NotFoundAnswer>> /\ auth.nextCalls = 0
    /\ \E r \in Reqs :
          /\ args[r].op = "create" /\ args[r].authUser = 1
          /\ result[r] = Rejected(ForeignKeyViolation)

====
